---- MODULE Spec2Model ----
(***************************************************************************)
(* big-ag-grid-lab: the grid client's request sequencer (web/src/App.tsx)  *)
(* and the API server's COUNT cache and /api/users handler (api/src).      *)
(*                                                                         *)
(* Text is a sequence of one-character strings, so that trim() and         *)
(* JSON.stringify() are computed character by character.                   *)
(***************************************************************************)
EXTENDS Integers, Sequences, FiniteSets, TLC

(***************************************************************************)
(* Bounds of the model                                                     *)
(***************************************************************************)
\* parameter changes the user makes after the mount
MaxChanges == 2
\* steps of the server's clock
MaxTicks == 2
\* get / set calls made on the COUNT cache on its own
MaxCacheOps == 3
\* GET /api/users requests handled
MaxRequests == 2
\* rows inserted after the seeding
MaxInserts == 1
\* rows the seeding inserts
SeedTarget == 3
\* characters of a search text given to the normalization on its own
MaxSearchLen == 3

(***************************************************************************)
(* Program constants                                                       *)
(***************************************************************************)
DEBOUNCE_MS == 350
COUNT_CACHE_TTL_MS == 30000
\* QuerySchema: defaults and the upper bound of pageSize
SchemaDefaultPage == 1
SchemaDefaultPageSize == 50
SchemaMaxPageSize == 1000000
DefaultPageSize == 50
CursorDefaultPageSize == 100
CursorMaxPageSize == 10000
LargerPageSize == 100
PageSelectStep == 100

\* null where a string is expected, and null where an object is expected
null == "null"
nullObject == [isNull |-> TRUE]
\* useState<UserRow[]>([]): the rows of no call
EmptyRows == [call |-> 0]

VARIABLES
    \* ---- App.tsx: React state
    rows, totalCount, page, pageSize, search, status, sort,
    apiResRequest, meta, fetchTotalLog,
    \* ---- App.tsx: refs
    abortRef, reqIdRef,
    \* ---- App.tsx: runtime objects
    timers,         \* pending setTimeout handles: [id, q, remaining]
    effectTimer,    \* `t` captured by the cleanup of the last effect run
    aborted,        \* AbortController id -> signal.aborted
    calls,          \* fetchData invocations, by myReqId
    consoleErrors,  \* console.error calls
    \* ---- history
    changes,        \* effect re-runs after the mount
    arrivals        \* myReqId of the responses in the order they were processed

VARIABLES
    \* ---- index.js: Date.now() and the COUNT cache
    now, countCache,
    \* ---- the users table
    db,
    \* ---- the last answer of GET /api/users
    res,
    \* ---- history
    ticks,          \* clock steps taken
    cacheOps,       \* get / set calls made on the cache on its own
    written,        \* key -> value and time of the last setCountCache
    reads,          \* key -> getCountCache calls since the last setCountCache
    lastGet,        \* the last getCountCache made on its own and its result
    served,         \* requests handled
    inserts,        \* rows inserted after the seeding
    entryInfo,      \* key -> the request and the COUNT that wrote the entry
    hitInfo         \* entryInfo of the entry the last answer was served from

VARIABLES
    \* ---- index.js: a call of a pure function and what it returned
    arg, out,
    \* ---- index.js: the last answer of GET /api/users-cursor
    cursorRes,
    \* ---- a client walking GET /api/users-cursor from page one
    walk,
    \* ---- GET /api/users requests in progress, statement by statement
    procs

clientVars == <<rows, totalCount, page, pageSize, search, status, sort,
                apiResRequest, meta, fetchTotalLog, abortRef, reqIdRef,
                timers, effectTimer, aborted, calls, consoleErrors,
                changes, arrivals>>

clockVars == <<now, ticks>>
unitVars == <<cacheOps, written, reads, lastGet>>
handlerVars == <<db, res, served, inserts, entryInfo, hitInfo>>
pureVars == <<arg, out>>
cursorVars == <<cursorRes, walk>>
moreVars == <<pureVars, cursorVars, procs>>
serverVars == <<clockVars, countCache, unitVars, handlerVars, moreVars>>

vars == <<clientVars, serverVars>>

(***************************************************************************)
(* Text helpers                                                            *)
(***************************************************************************)
\* white space as String.prototype.trim sees it (space, tab, line feed)
IsSpace(c) == c \in {" ", "\t", "\n"}

RECURSIVE TrimStart(_)
TrimStart(s) ==
    IF s = <<>> THEN <<>>
    ELSE IF IsSpace(Head(s)) THEN TrimStart(Tail(s)) ELSE s

RECURSIVE TrimEnd(_)
TrimEnd(s) ==
    IF s = <<>> THEN <<>>
    ELSE IF IsSpace(s[Len(s)]) THEN TrimEnd(SubSeq(s, 1, Len(s) - 1)) ELSE s

\* a trim that drops one white space character at each end at most
Trim_Once(s) ==
    LET t == IF s # <<>> /\ IsSpace(Head(s)) THEN Tail(s) ELSE s
    IN  IF t # <<>> /\ IsSpace(t[Len(t)]) THEN SubSeq(t, 1, Len(t) - 1) ELSE t

\* String.prototype.trim
Trim(s) == TrimEnd(TrimStart(s))

CeilDiv(a, b) == (a + b - 1) \div b

Max(a, b) == IF a >= b THEN a ELSE b

(***************************************************************************)
(* Client: inputs                                                          *)
(***************************************************************************)
SearchInputs == {<<>>, <<" ", "a">>}
StatusInputs == {"", "ACTIVE"}
PageSizeInputs == {DefaultPageSize, LargerPageSize}
SortInputs == {"createdAt:desc", "name:asc"}
\* totalCount values the server may answer with
TotalCounts == {75}
\* amounts of time that pass in one step
ElapseSteps == {DEBOUNCE_MS \div 2}
\* exceptions fetch() / res.json() may reject with
AbortError == "AbortError"
OtherErrors == {"TypeError"}

\* type QueryState
QueryState(p, ps, so, se, st) ==
    [page |-> p, pageSize |-> ps, sort |-> so, search |-> se, status |-> st]

CurrentQuery == QueryState(page, pageSize, sort, search, status)

\* URLSearchParams built by fetchData: search and status are set only when
\* non-empty (an empty search text stands for the parameter not being set)
RequestParams(q) ==
    [page |-> q.page, pageSize |-> q.pageSize, sort |-> q.sort,
     search |-> IF Trim(q.search) # <<>> THEN Trim(q.search) ELSE <<>>,
     status |-> IF q.status # "" THEN q.status ELSE null]

\* `request` of the server's answer: the parsed query echoed back
\* (search defaults to "", status ?? null)
ResponseRequest(p) ==
    [page |-> p.page, pageSize |-> p.pageSize, sort |-> p.sort,
     status |-> p.status,
     search |-> p.search]

\* the ApiRes body answering call k, with the server's total tc
ApiRes(k, tc) ==
    [rows |-> [call |-> k],
     totalCount |-> tc,
     request |-> ResponseRequest(calls[k].params),
     meta |-> [call |-> k, page |-> calls[k].params.page,
               pageSize |-> calls[k].params.pageSize]]

\* totalPages and the options of the page <select>
TotalPages == Max(1, CeilDiv(totalCount, pageSize))
PageOptions == {(idx + 1) * PageSelectStep : idx \in 0 .. (CeilDiv(TotalPages, PageSelectStep) - 1)}

(***************************************************************************)
(* Client: the debounce effect                                             *)
(***************************************************************************)
\* a cleanup that forgets to clear the pending timer
ClearTimeout_Forgotten(ts, id) == ts

\* cleanup of the previous effect run: clearTimeout(t)
ClearTimeout(ts, id) == {t \in ts : t.id # id}

\* setTimeout(() => fetchData(q), DEBOUNCE_MS)
SetTimeout(ts, id, q) == ts \cup {[id |-> id, q |-> q, remaining |-> DEBOUNCE_MS]}

\* a render with changed deps: cleanup of the previous run, then the effect
RerunEffect(q) ==
    /\ changes < MaxChanges
    /\ q # CurrentQuery
    /\ page' = q.page
    /\ pageSize' = q.pageSize
    /\ sort' = q.sort
    /\ search' = q.search
    /\ status' = q.status
    /\ changes' = changes + 1
    /\ effectTimer' = changes + 2
    /\ timers' = SetTimeout(ClearTimeout(timers, effectTimer), changes + 2, q)
    /\ UNCHANGED <<rows, totalCount, apiResRequest, meta, fetchTotalLog,
                   abortRef, reqIdRef, aborted, calls, consoleErrors, arrivals>>
    /\ UNCHANGED serverVars

\* <input onChange>: setSearch(value); setPage(1)
SearchChanged(v) ==
    /\ v # search
    /\ RerunEffect(QueryState(1, pageSize, sort, v, status))

\* status <select onChange>: setStatus(value); setPage(1)
StatusChanged(v) ==
    /\ v # status
    /\ RerunEffect(QueryState(1, pageSize, sort, search, v))

\* pageSize <select onChange>: setPageSize(value); setPage(1)
PageSizeChanged(v) ==
    /\ v # pageSize
    /\ RerunEffect(QueryState(1, v, sort, search, status))

\* onSortChanged: setSort(`${colId}:${sort}`); setPage(1)
SortChanged(v) ==
    RerunEffect(QueryState(1, pageSize, v, search, status))

\* Prev button: disabled when page <= 1
PrevPage ==
    /\ ~(page <= 1)
    /\ RerunEffect(QueryState(Max(1, page - 1), pageSize, sort, search, status))

\* Next button: disabled when page * pageSize >= totalCount
NextPage ==
    /\ ~(page * pageSize >= totalCount)
    /\ RerunEffect(QueryState(page + 1, pageSize, sort, search, status))

\* page <select onChange>: setPage(Number(value))
PageSelected(p) ==
    /\ p \in PageOptions
    /\ RerunEffect(QueryState(p, pageSize, sort, search, status))

\* time passes: every pending timer gets closer to its expiry
Elapse(d) ==
    /\ \E t \in timers : t.remaining > 0
    /\ timers' = {[t EXCEPT !.remaining = Max(0, t.remaining - d)] : t \in timers}
    /\ UNCHANGED <<rows, totalCount, page, pageSize, search, status, sort,
                   apiResRequest, meta, fetchTotalLog, abortRef, reqIdRef,
                   effectTimer, aborted, calls, consoleErrors, changes, arrivals>>
    /\ UNCHANGED serverVars

(***************************************************************************)
(* Client: fetchData                                                       *)
(***************************************************************************)
\* a dispatch that leaves the previous controller alone
AbortPrevious_Skipped(ab, ref) == ab

\* abortRef.current?.abort()
AbortPrevious(ab, ref) == IF ref = 0 THEN ab ELSE [ab EXCEPT ![ref] = TRUE]

\* fetchData(q) up to its first await: abort the previous controller, make a
\* new one, take the next request id, start fetch()
FetchDataStart(q) ==
    LET myReqId == reqIdRef + 1
        controller == reqIdRef + 1
    IN  /\ aborted' = [c \in DOMAIN aborted \cup {controller} |->
                         IF c = controller THEN FALSE
                         ELSE AbortPrevious(aborted, abortRef)[c]]
        /\ abortRef' = controller
        /\ reqIdRef' = myReqId
        /\ calls' = [k \in DOMAIN calls \cup {myReqId} |->
                       IF k = myReqId
                       THEN [q |-> q, params |-> RequestParams(q),
                             controller |-> controller, pc |-> "fetch",
                             outcome |-> "InFlight", json |-> nullObject]
                       ELSE calls[k]]

\* the setTimeout callback runs
TimerFires(t) ==
    /\ t \in timers
    /\ t.remaining = 0
    /\ timers' = timers \ {t}
    /\ FetchDataStart(t.q)
    /\ UNCHANGED <<rows, totalCount, page, pageSize, search, status, sort,
                   apiResRequest, meta, fetchTotalLog, effectTimer,
                   consoleErrors, changes, arrivals>>
    /\ UNCHANGED serverVars

\* `await fetch(...)` resolves with the response head
FetchResolves(k) ==
    /\ k \in DOMAIN calls
    /\ calls[k].pc = "fetch"
    /\ calls' = [calls EXCEPT ![k].pc = "json"]
    /\ UNCHANGED <<rows, totalCount, page, pageSize, search, status, sort,
                   apiResRequest, meta, fetchTotalLog, abortRef, reqIdRef,
                   timers, effectTimer, aborted, consoleErrors, changes, arrivals>>
    /\ UNCHANGED serverVars

\* an answer applied without comparing myReqId to reqIdRef.current
OnJson_Unchecked(k, json) ==
    /\ rows' = json.rows
    /\ totalCount' = json.totalCount
    /\ apiResRequest' = json.request
    /\ meta' = json.meta
    /\ fetchTotalLog' = [call |-> k]
    /\ calls' = [calls EXCEPT ![k].pc = "done", ![k].outcome = "Applied",
                              ![k].json = json]

\* an answer dropped whenever a parameter change is waiting in its debounce
OnJson_DroppedWhilePending(k, json) ==
    IF k # reqIdRef \/ timers # {}
    THEN /\ calls' = [calls EXCEPT ![k].pc = "done", ![k].outcome = "Superseded",
                                   ![k].json = json]
         /\ UNCHANGED <<rows, totalCount, apiResRequest, meta, fetchTotalLog>>
    ELSE /\ rows' = json.rows
         /\ totalCount' = json.totalCount
         /\ apiResRequest' = json.request
         /\ meta' = json.meta
         /\ fetchTotalLog' = [call |-> k]
         /\ calls' = [calls EXCEPT ![k].pc = "done", ![k].outcome = "Applied",
                                   ![k].json = json]

\* an answer applied without its meta
OnJson_MetaKept(k, json) ==
    IF k # reqIdRef
    THEN /\ calls' = [calls EXCEPT ![k].pc = "done", ![k].outcome = "Superseded",
                                   ![k].json = json]
         /\ UNCHANGED <<rows, totalCount, apiResRequest, meta, fetchTotalLog>>
    ELSE /\ rows' = json.rows
         /\ totalCount' = json.totalCount
         /\ apiResRequest' = json.request
         /\ meta' = meta
         /\ fetchTotalLog' = [call |-> k]
         /\ calls' = [calls EXCEPT ![k].pc = "done", ![k].outcome = "Applied",
                                   ![k].json = json]

\* the code after `await res.json()`: apply only the latest request's answer
OnJson(k, json) ==
    IF k # reqIdRef
    THEN /\ calls' = [calls EXCEPT ![k].pc = "done", ![k].outcome = "Superseded",
                                   ![k].json = json]
         /\ UNCHANGED <<rows, totalCount, apiResRequest, meta, fetchTotalLog>>
    ELSE /\ rows' = json.rows
         /\ totalCount' = json.totalCount
         /\ apiResRequest' = json.request
         /\ meta' = json.meta
         /\ fetchTotalLog' = [call |-> k]
         /\ calls' = [calls EXCEPT ![k].pc = "done", ![k].outcome = "Applied",
                                   ![k].json = json]

\* `await res.json()` resolves
JsonResolves(k, tc) ==
    /\ k \in DOMAIN calls
    /\ calls[k].pc = "json"
    /\ OnJson(k, ApiRes(k, tc))
    /\ arrivals' = Append(arrivals, k)
    /\ UNCHANGED <<page, pageSize, search, status, sort, abortRef, reqIdRef,
                   timers, effectTimer, aborted, consoleErrors, changes>>
    /\ UNCHANGED serverVars

\* a catch block that returns on every exception
OnError_Swallowed(k, e) ==
    /\ calls' = [calls EXCEPT ![k].pc = "done", ![k].outcome = "Canceled"]
    /\ UNCHANGED consoleErrors

\* catch (e): an AbortError returns, anything else goes to console.error
OnError(k, e) ==
    IF e = AbortError
    THEN /\ calls' = [calls EXCEPT ![k].pc = "done", ![k].outcome = "Canceled"]
         /\ UNCHANGED consoleErrors
    ELSE /\ calls' = [calls EXCEPT ![k].pc = "done", ![k].outcome = "Failed"]
         /\ consoleErrors' = Append(consoleErrors,
                                    [call |-> k, error |-> e, latest |-> reqIdRef])

\* what fetch() / res.json() of call k may reject with: an AbortError once
\* its signal is aborted, a network or parse error at any time
Rejections(k) ==
    OtherErrors \cup (IF aborted[calls[k].controller] THEN {AbortError} ELSE {})

\* `await fetch(...)` or `await res.json()` rejects
AwaitRejects(k, e) ==
    /\ k \in DOMAIN calls
    /\ calls[k].pc \in {"fetch", "json"}
    /\ e \in Rejections(k)
    /\ OnError(k, e)
    /\ UNCHANGED <<rows, totalCount, page, pageSize, search, status, sort,
                   apiResRequest, meta, fetchTotalLog, abortRef, reqIdRef,
                   timers, effectTimer, aborted, changes, arrivals>>
    /\ UNCHANGED serverVars


(***************************************************************************)
(* Server: text                                                            *)
(***************************************************************************)
\* the printable ASCII characters in code point order, from U+0020 (the
\* grave accent, U+0060, is spelled out)
AsciiTable ==
    <<" ", "!", "\"", "#", "$", "%", "&", "'", "(", ")", "*", "+", ",",
      "-", ".", "/", "0", "1", "2", "3", "4", "5", "6", "7", "8", "9", ":",
      ";", "<", "=", ">", "?", "@", "A", "B", "C", "D", "E", "F", "G", "H",
      "I", "J", "K", "L", "M", "N", "O", "P", "Q", "R", "S", "T", "U", "V",
      "W", "X", "Y", "Z", "[", "\\", "]", "^", "_", "GRAVE", "a", "b", "c",
      "d", "e", "f", "g", "h", "i", "j", "k", "l", "m", "n", "o", "p", "q",
      "r", "s", "t", "u", "v", "w", "x", "y", "z", "{", "|", "}", "~">>

CharCode(c) == 31 + (CHOOSE i \in DOMAIN AsciiTable : AsciiTable[i] = c)

\* byte-wise text comparison (SQLite BINARY collation, JS string order)
RECURSIVE TextLess(_, _)
TextLess(a, b) ==
    IF b = <<>> THEN FALSE
    ELSE IF a = <<>> THEN TRUE
    ELSE IF Head(a) = Head(b) THEN TextLess(Tail(a), Tail(b))
    ELSE CharCode(Head(a)) < CharCode(Head(b))

UpperLetters ==
    <<"A", "B", "C", "D", "E", "F", "G", "H", "I", "J", "K", "L", "M", "N",
      "O", "P", "Q", "R", "S", "T", "U", "V", "W", "X", "Y", "Z">>
LowerLetters ==
    <<"a", "b", "c", "d", "e", "f", "g", "h", "i", "j", "k", "l", "m", "n",
      "o", "p", "q", "r", "s", "t", "u", "v", "w", "x", "y", "z">>

\* the lower-case letter of each upper-case ASCII letter
LowerOfUpper ==
    [c \in {UpperLetters[i] : i \in DOMAIN UpperLetters} |->
        LowerLetters[CHOOSE i \in DOMAIN UpperLetters : UpperLetters[i] = c]]

\* ASCII lower-casing of one character
LowerChar(c) == IF c \in DOMAIN LowerOfUpper THEN LowerOfUpper[c] ELSE c

\* String.prototype.toLowerCase
ToLowerCase(s) == [i \in DOMAIN s |-> LowerChar(s[i])]

DigitChars == <<"0", "1", "2", "3", "4", "5", "6", "7", "8", "9">>

\* String(n) of a non-negative integer
RECURSIVE NumberText(_)
NumberText(n) ==
    IF n < 10 THEN <<DigitChars[n + 1]>>
    ELSE NumberText(n \div 10) \o <<DigitChars[(n % 10) + 1]>>

\* where.push("status = @status")
StatusClause ==
    <<"s", "t", "a", "t", "u", "s", " ", "=", " ", "@", "s", "t", "a", "t",
      "u", "s">>

\* where.push("(name LIKE @q OR email LIKE @q)")
SearchClause ==
    <<"(", "n", "a", "m", "e", " ", "L", "I", "K", "E", " ", "@", "q", " ",
      "O", "R", " ", "e", "m", "a", "i", "l", " ", "L", "I", "K", "E", " ",
      "@", "q", ")">>

\* `WHERE ${...}`
WherePrefix ==
    <<"W", "H", "E", "R", "E", " ">>

\* where.join(" AND ")
AndSeparator ==
    <<" ", "A", "N", "D", " ">>

\* JSON.stringify: the opening brace and the first property name
JsonKeyWhereSql ==
    <<"{", "\"", "w", "h", "e", "r", "e", "S", "q", "l", "\"", ":">>

\* JSON.stringify: the second property name
JsonKeyNormalized ==
    <<",", "\"", "n", "o", "r", "m", "a", "l", "i", "z", "e", "d", "\"", ":">>

\* JSON.stringify: normalized.status
JsonKeyStatus ==
    <<"{", "\"", "s", "t", "a", "t", "u", "s", "\"", ":">>

\* JSON.stringify: normalized.search
JsonKeySearch ==
    <<",", "\"", "s", "e", "a", "r", "c", "h", "\"", ":">>

\* JSON.stringify(null)
JsonNull ==
    <<"n", "u", "l", "l">>

\* "ACTIVE"
TextACTIVE ==
    <<"A", "C", "T", "I", "V", "E">>

\* "INACTIVE"
TextINACTIVE ==
    <<"I", "N", "A", "C", "T", "I", "V", "E">>

\* "id"
FieldId ==
    <<"i", "d">>

\* "name"
FieldName ==
    <<"n", "a", "m", "e">>

\* "email"
FieldEmail ==
    <<"e", "m", "a", "i", "l">>

\* "status"
FieldStatus ==
    <<"s", "t", "a", "t", "u", "s">>

\* "createdAt"
FieldCreatedAt ==
    <<"c", "r", "e", "a", "t", "e", "d", "A", "t">>

\* "desc"
TextDesc ==
    <<"d", "e", "s", "c">>

\* "asc"
TextAsc ==
    <<"a", "s", "c">>

\* the default sort
SortCreatedAtDesc ==
    <<"c", "r", "e", "a", "t", "e", "d", "A", "t", ":", "d", "e", "s", "c">>

\* a sort the grid sends
SortNameAsc ==
    <<"n", "a", "m", "e", ":", "a", "s", "c">>

\* `User ${i}`
NamePrefix ==
    <<"U", "s", "e", "r", " ">>

\* `user${i}@example.com`
EmailPrefix ==
    <<"u", "s", "e", "r">>

\* `user${i}@example.com`
EmailSuffix ==
    <<"@", "e", "x", "a", "m", "p", "l", "e", ".", "c", "o", "m">>

\* the text of a status value
StatusText(st) == IF st = "ACTIVE" THEN TextACTIVE ELSE TextINACTIVE

(***************************************************************************)
(* Server: COUNT cache                                                     *)
(***************************************************************************)
Absent == [isNull |-> TRUE]
Found(v) == [isNull |-> FALSE, value |-> v]

\* Map.prototype.delete
MapDelete(m, key) == [k \in DOMAIN m \ {key} |-> m[k]]

\* Map.prototype.set
MapSet(m, key, e) == [k \in DOMAIN m \cup {key} |-> IF k = key THEN e ELSE m[k]]

\* a lookup that also pushes the expiry of a live entry forward
getCountCache_Sliding(cache, key, t) ==
    IF key \notin DOMAIN cache THEN [result |-> Absent, cache |-> cache]
    ELSE IF cache[key].expiresAt < t
         THEN [result |-> Absent, cache |-> MapDelete(cache, key)]
         ELSE [result |-> Found(cache[key].value),
               cache |-> MapSet(cache, key,
                                [value |-> cache[key].value,
                                 expiresAt |-> t + COUNT_CACHE_TTL_MS])]

\* a lookup that reports an expired entry as absent but keeps it in the map
getCountCache_NoEviction(cache, key, t) ==
    IF key \notin DOMAIN cache THEN [result |-> Absent, cache |-> cache]
    ELSE IF cache[key].expiresAt < t
         THEN [result |-> Absent, cache |-> cache]
         ELSE [result |-> Found(cache[key].value), cache |-> cache]

\* a lookup that never looks at expiresAt
getCountCache_NoExpiry(cache, key, t) ==
    IF key \notin DOMAIN cache THEN [result |-> Absent, cache |-> cache]
    ELSE [result |-> Found(cache[key].value), cache |-> cache]

\* getCountCache(key) at time t: the value returned and the map afterwards
getCountCache(cache, key, t) ==
    IF key \notin DOMAIN cache THEN [result |-> Absent, cache |-> cache]
    ELSE IF cache[key].expiresAt < t
         THEN [result |-> Absent, cache |-> MapDelete(cache, key)]
         ELSE [result |-> Found(cache[key].value), cache |-> cache]

\* a set that leaves an entry that is already there
setCountCache_KeepFirst(cache, key, value, t) ==
    IF key \in DOMAIN cache THEN cache
    ELSE MapSet(cache, key, [value |-> value, expiresAt |-> t + COUNT_CACHE_TTL_MS])

\* setCountCache(key, value) at time t
setCountCache(cache, key, value, t) ==
    MapSet(cache, key, [value |-> value, expiresAt |-> t + COUNT_CACHE_TTL_MS])

(***************************************************************************)
(* Server: GET /api/users                                                  *)
(***************************************************************************)
\* `where` as pushed by the handler
WhereClauses(q) ==
    (IF q.status # null THEN <<StatusClause>> ELSE <<>>)
    \o (IF q.search # <<>> /\ Len(Trim(q.search)) > 0 THEN <<SearchClause>> ELSE <<>>)

\* Array.prototype.join
RECURSIVE Join(_, _)
Join(parts, sep) ==
    IF parts = <<>> THEN <<>>
    ELSE IF Len(parts) = 1 THEN parts[1]
    ELSE parts[1] \o sep \o Join(Tail(parts), sep)

\* whereSql
WhereSql(q) ==
    IF Len(WhereClauses(q)) # 0
    THEN WherePrefix \o Join(WhereClauses(q), AndSeparator)
    ELSE <<>>

\* `normalized`: status ?? null, search trimmed or null
Normalized(q) ==
    [status |-> q.status,
     search |-> IF q.search # <<>> /\ Len(Trim(q.search)) > 0
                THEN [isNull |-> FALSE, text |-> Trim(q.search)]
                ELSE [isNull |-> TRUE]]

\* JSON.stringify of a string: quotes and backslashes are escaped
RECURSIVE JsonEscape(_)
JsonEscape(s) ==
    IF s = <<>> THEN <<>>
    ELSE (IF Head(s) = "\"" THEN <<"\\", "\"">>
          ELSE IF Head(s) = "\\" THEN <<"\\", "\\">>
          ELSE <<Head(s)>>) \o JsonEscape(Tail(s))

JsonString(s) == <<"\"">> \o JsonEscape(s) \o <<"\"">>

\* JSON.stringify(normalized)
JsonNormalized(normalized) ==
    JsonKeyStatus
    \o (IF normalized.status = null THEN JsonNull
        ELSE JsonString(StatusText(normalized.status)))
    \o JsonKeySearch
    \o (IF normalized.search.isNull THEN JsonNull
        ELSE JsonString(normalized.search.text))
    \o <<"}">>

\* a key made of the SQL text alone
CountCacheKey_WhereSqlOnly(q) ==
    JsonKeyWhereSql \o JsonString(WhereSql(q)) \o <<"}">>

\* a key that also holds the page
CountCacheKey_WithPage(q) ==
    JsonKeyWhereSql \o JsonString(WhereSql(q))
    \o JsonKeyNormalized \o JsonNormalized(Normalized(q))
    \o <<",">> \o NumberText(q.page) \o <<"}">>

\* countCacheKey = JSON.stringify({ whereSql, normalized })
CountCacheKey(q) ==
    JsonKeyWhereSql \o JsonString(WhereSql(q))
    \o JsonKeyNormalized \o JsonNormalized(Normalized(q))
    \o <<"}">>

\* SQLite LIKE: % matches any run of characters, _ one character, letters
\* match without regard to ASCII case
RECURSIVE Like(_, _)
Like(pattern, text) ==
    IF pattern = <<>> THEN text = <<>>
    ELSE IF Head(pattern) = "%"
         THEN Like(Tail(pattern), text) \/ (text # <<>> /\ Like(pattern, Tail(text)))
    ELSE IF text = <<>> THEN FALSE
    ELSE IF Head(pattern) = "_" THEN Like(Tail(pattern), Tail(text))
    ELSE /\ LowerChar(Head(pattern)) = LowerChar(Head(text))
         /\ Like(Tail(pattern), Tail(text))

\* the row satisfies the WHERE clause built for q, with params.status and
\* params.q = `%${search.trim()}%`
MatchesWhere(r, q) ==
    /\ q.status # null => r.status = q.status
    /\ (q.search # <<>> /\ Len(Trim(q.search)) > 0) =>
          LET pat == <<"%">> \o Trim(q.search) \o <<"%">>
          IN  Like(pat, r.name) \/ Like(pat, r.email)

\* SELECT COUNT(*) as totalCount FROM users ${whereSql}
CountRows(table, q) == Cardinality({r \in table : MatchesWhere(r, q)})

\* String.prototype.split(":")
RECURSIVE SplitColon(_, _)
SplitColon(s, acc) ==
    IF s = <<>> THEN <<acc>>
    ELSE IF Head(s) = ":" THEN <<acc>> \o SplitColon(Tail(s), <<>>)
    ELSE SplitColon(Tail(s), Append(acc, Head(s)))

AllowedFields == {FieldId, FieldName, FieldEmail, FieldStatus, FieldCreatedAt}

\* a parser that lets the requested field through
parseSort_NoAllowlist(sortStr) ==
    LET parts == SplitColon(sortStr, <<>>)
        fieldRaw == parts[1]
        dirRaw == IF Len(parts) >= 2 /\ parts[2] # <<>> THEN parts[2] ELSE TextDesc
    IN  [field |-> IF fieldRaw # <<>> THEN fieldRaw ELSE FieldCreatedAt,
         dir |-> IF ToLowerCase(dirRaw) = TextAsc THEN "ASC" ELSE "DESC"]

\* parseSort(sortStr)
parseSort(sortStr) ==
    LET parts == SplitColon(sortStr, <<>>)
        fieldRaw == parts[1]
        field == IF fieldRaw # <<>> THEN fieldRaw ELSE FieldCreatedAt
        dirRaw == IF Len(parts) >= 2 /\ parts[2] # <<>> THEN parts[2] ELSE TextDesc
    IN  [field |-> IF field \in AllowedFields THEN field ELSE FieldCreatedAt,
         dir |-> IF ToLowerCase(dirRaw) = TextAsc THEN "ASC" ELSE "DESC"]

\* r1 sorts strictly before r2 under ORDER BY ${field} ${dir}
SortsBefore(r1, r2, field, dir) ==
    LET less(a, b) ==
            IF field = FieldId THEN a.id < b.id
            ELSE IF field = FieldName THEN TextLess(a.name, b.name)
            ELSE IF field = FieldEmail THEN TextLess(a.email, b.email)
            ELSE IF field = FieldStatus
                 THEN TextLess(StatusText(a.status), StatusText(b.status))
            ELSE a.createdAt < b.createdAt
    IN  IF dir = "ASC" THEN less(r1, r2) ELSE less(r2, r1)

\* the orders in which the engine may return the rows of S: every
\* arrangement that respects ORDER BY; rows with equal sort values come in
\* an order SQL leaves open
RECURSIVE QueryOrders(_, _, _)
QueryOrders(S, field, dir) ==
    IF S = {} THEN {<<>>}
    ELSE UNION {{<<first>> \o rest : rest \in QueryOrders(S \ {first}, field, dir)} :
                  first \in {r \in S : \A o \in S : ~SortsBefore(o, r, field, dir)}}

\* ORDER BY ${field} ${dir}: the text put into the row query
OrderByText(sortSpec) ==
    sortSpec.field \o <<" ">>
    \o (IF sortSpec.dir = "ASC" THEN <<"A", "S", "C">> ELSE <<"D", "E", "S", "C">>)

\* LIMIT @limit OFFSET @offset
LimitOffset(ordered, limit, offset) ==
    SubSeq(ordered, offset + 1, IF offset + limit <= Len(ordered)
                                THEN offset + limit ELSE Len(ordered))

(***************************************************************************)
(* Server: GET /api/users-cursor                                           *)
(***************************************************************************)
\* a query string parameter: not given, or given with a text
NoParam == [given |-> FALSE]
Param(text) == [given |-> TRUE, text |-> text]

\* `req.query.x ? ... : ...` and `req.query.x || ...`: a parameter that is
\* not given or is the empty text is falsy
IsTruthy(p) == p.given /\ p.text # <<>>

NaN == [nan |-> TRUE]
Num(n) == [nan |-> FALSE, value |-> n]

DigitValue(c) == (CHOOSE i \in DOMAIN DigitChars : DigitChars[i] = c) - 1
IsDigit(c) == \E i \in DOMAIN DigitChars : DigitChars[i] = c

\* the value of the longest run of digits s starts with, after acc
RECURSIVE DigitsPrefix(_, _)
DigitsPrefix(s, acc) ==
    IF s = <<>> \/ ~IsDigit(Head(s)) THEN acc
    ELSE DigitsPrefix(Tail(s), 10 * acc + DigitValue(Head(s)))

\* parseInt(s, 10): leading white space skipped, an optional sign, then the
\* longest run of digits; NaN when there is no digit there
parseInt(s) ==
    LET t == TrimStart(s)
        signed == t # <<>> /\ Head(t) \in {"-", "+"}
        digits == IF signed THEN Tail(t) ELSE t
    IN  IF digits = <<>> \/ ~IsDigit(Head(digits)) THEN NaN
        ELSE IF signed /\ Head(t) = "-" THEN Num(0 - DigitsPrefix(digits, 0))
        ELSE Num(DigitsPrefix(digits, 0))

\* Math.min(Math.max(parseInt(req.query.pageSize || "100", 10), 1), 10000)
CursorPageSize(rq) ==
    LET parsed == IF IsTruthy(rq.pageSize) THEN parseInt(rq.pageSize.text)
                  ELSE Num(CursorDefaultPageSize)
    IN  IF parsed.nan THEN NaN
        ELSE Num(IF parsed.value < 1 THEN 1
                 ELSE IF parsed.value > CursorMaxPageSize THEN CursorMaxPageSize
                 ELSE parsed.value)

\* (req.query.search || "").toString().trim()
CursorSearch(rq) == IF IsTruthy(rq.search) THEN Trim(rq.search.text) ELSE <<>>

\* req.query.status ? req.query.status.toString() : null
CursorStatus(rq) ==
    IF IsTruthy(rq.status) THEN [isNull |-> FALSE, text |-> rq.status.text]
    ELSE nullObject

\* req.query.cursorCreatedAt ? req.query.cursorCreatedAt.toString() : null;
\* a createdAt text is given by the instant it stands for
CursorCreatedAt(rq) ==
    IF rq.cursorCreatedAt.given THEN [isNull |-> FALSE, at |-> rq.cursorCreatedAt.at]
    ELSE nullObject

\* req.query.cursorId ? parseInt(req.query.cursorId.toString(), 10) : null
CursorId(rq) ==
    IF IsTruthy(rq.cursorId)
    THEN [isNull |-> FALSE, number |-> parseInt(rq.cursorId.text)]
    ELSE nullObject

\* cursorCreatedAt && Number.isInteger(cursorId)
HasCursorBound(rq) ==
    /\ ~CursorCreatedAt(rq).isNull
    /\ ~CursorId(rq).isNull
    /\ ~CursorId(rq).number.nan

\* a cursor bound on createdAt alone
MatchesCursorWhere_NoTieBreak(r, rq) ==
    /\ (~CursorStatus(rq).isNull
        /\ CursorStatus(rq).text \in {TextACTIVE, TextINACTIVE}) =>
          StatusText(r.status) = CursorStatus(rq).text
    /\ Len(CursorSearch(rq)) > 0 =>
          LET pat == <<"%">> \o CursorSearch(rq) \o <<"%">>
          IN  Like(pat, r.name) \/ Like(pat, r.email)
    /\ HasCursorBound(rq) => r.createdAt < CursorCreatedAt(rq).at

\* a cursor bound that lets the cursor row itself through
MatchesCursorWhere_Inclusive(r, rq) ==
    /\ (~CursorStatus(rq).isNull
        /\ CursorStatus(rq).text \in {TextACTIVE, TextINACTIVE}) =>
          StatusText(r.status) = CursorStatus(rq).text
    /\ Len(CursorSearch(rq)) > 0 =>
          LET pat == <<"%">> \o CursorSearch(rq) \o <<"%">>
          IN  Like(pat, r.name) \/ Like(pat, r.email)
    /\ HasCursorBound(rq) =>
          \/ r.createdAt < CursorCreatedAt(rq).at
          \/ (r.createdAt = CursorCreatedAt(rq).at
              /\ r.id <= CursorId(rq).number.value)

\* the WHERE clause of the cursor query
MatchesCursorWhere(r, rq) ==
    /\ (~CursorStatus(rq).isNull
        /\ CursorStatus(rq).text \in {TextACTIVE, TextINACTIVE}) =>
          StatusText(r.status) = CursorStatus(rq).text
    /\ Len(CursorSearch(rq)) > 0 =>
          LET pat == <<"%">> \o CursorSearch(rq) \o <<"%">>
          IN  Like(pat, r.name) \/ Like(pat, r.email)
    /\ HasCursorBound(rq) =>
          \/ r.createdAt < CursorCreatedAt(rq).at
          \/ (r.createdAt = CursorCreatedAt(rq).at
              /\ r.id < CursorId(rq).number.value)

\* ORDER BY createdAt DESC, id DESC
KeysetBefore(r1, r2) ==
    \/ r1.createdAt > r2.createdAt
    \/ (r1.createdAt = r2.createdAt /\ r1.id > r2.id)

\* the rows of S in that order: the i-th is the one with i - 1 rows before it
KeysetOrder(S) ==
    [i \in 1 .. Cardinality(S) |->
        CHOOSE r \in S : Cardinality({o \in S : KeysetBefore(o, r)}) = i - 1]

\* LIMIT @limit
Limit(ordered, limit) ==
    SubSeq(ordered, 1, IF limit <= Len(ordered) THEN limit ELSE Len(ordered))

\* db.prepare(`SELECT ... ${whereSql} ORDER BY createdAt DESC, id DESC
\* LIMIT @limit`).all(params)
CursorRows(table, rq) ==
    CHOOSE pageRows \in
        {Limit(ordered, CursorPageSize(rq).value) :
            ordered \in {KeysetOrder(matching) :
                matching \in {{r \in table : MatchesCursorWhere(r, rq)}}}} : TRUE

\* nextCursor of a page: rows.length ? rows[rows.length - 1] : null
NextCursorOf(pageRows) ==
    IF Len(pageRows) # 0
    THEN [isNull |-> FALSE,
          cursorCreatedAt |-> pageRows[Len(pageRows)].createdAt,
          cursorId |-> pageRows[Len(pageRows)].id]
    ELSE nullObject

\* res.json({ rows, nextCursor, meta }) of the cursor endpoint
CursorAnswer(table, rq) ==
    CHOOSE answer \in
        {[rows |-> pageRows,
          nextCursor |-> NextCursorOf(pageRows),
          meta |-> [queryTimeMs |-> 0,
                    pageSize |-> CursorPageSize(rq).value,
                    status |-> CursorStatus(rq),
                    search |-> CursorSearch(rq),
                    usedCursor |-> IF ~CursorCreatedAt(rq).isNull
                                   THEN [isNull |-> FALSE,
                                         cursorCreatedAt |-> CursorCreatedAt(rq).at,
                                         cursorId |-> CursorId(rq)]
                                   ELSE nullObject]] :
            pageRows \in {CursorRows(table, rq)}} : TRUE

(***************************************************************************)
(* Server: inputs                                                          *)
(***************************************************************************)
\* the parsed query of GET /api/users
ParsedQuery(p, ps, se, st, so) ==
    [page |-> p, pageSize |-> ps, search |-> se, status |-> st, sort |-> so]

\* the requests sent to the server: pairs with the same filter and another
\* page, pageSize, sort or raw search text, and pairs whose filters differ in
\* the status only or in the search text only
Queries ==
    {ParsedQuery(1, 2, <<>>, null, SortCreatedAtDesc),
     ParsedQuery(2, 1, <<" ">>, null, SortNameAsc),
     ParsedQuery(1, 2, <<"1">>, "ACTIVE", SortCreatedAtDesc),
     ParsedQuery(2, 1, <<" ", "1">>, "ACTIVE", SortNameAsc),
     ParsedQuery(1, 2, <<"\"">>, "ACTIVE", SortCreatedAtDesc),
     ParsedQuery(1, 2, <<"1">>, null, SortCreatedAtDesc),
     ParsedQuery(1, 2, <<"1">>, "INACTIVE", SortCreatedAtDesc)}

\* how long the COUNT query may take
CountDurations == {0, 1}
\* amounts by which the clock advances in one step: around a cache entry's
\* expiry for the cache on its own, a whole TTL between requests
TickSteps == {1, COUNT_CACHE_TTL_MS}
ServerTickSteps == {COUNT_CACHE_TTL_MS}
\* keys and values used on the cache on its own
KeysUnderTest ==
    {CountCacheKey(ParsedQuery(1, 2, se, null, SortCreatedAtDesc)) : se \in {<<>>, <<"1">>}}
CountValues == {0, 2}

(***************************************************************************)
(* Server: the users table                                                 *)
(***************************************************************************)
\* the row the seeding inserts for i
SeedRow(i) ==
    [id |-> i,
     name |-> NamePrefix \o NumberText(i),
     email |-> EmailPrefix \o NumberText(i) \o EmailSuffix,
     status |-> IF i % 2 = 0 THEN "ACTIVE" ELSE "INACTIVE",
     createdAt |-> 0 - i]

\* the table after seed(SeedTarget)
SeededTable == {SeedRow(i) : i \in 1 .. SeedTarget}

\* INSERT INTO users: the next row, by a writer outside the API process
InsertUser ==
    /\ inserts < MaxInserts
    /\ db' = db \cup {SeedRow(Cardinality(db) + 1)}
    /\ inserts' = inserts + 1
    /\ UNCHANGED <<clockVars, countCache, unitVars, res, served, entryInfo, hitInfo>>
    /\ UNCHANGED <<clientVars, moreVars>>

(***************************************************************************)
(* Server: actions                                                         *)
(***************************************************************************)
\* Date.now() moves on
Tick(d) ==
    /\ ticks < MaxTicks
    /\ now' = now + d
    /\ ticks' = ticks + 1
    /\ UNCHANGED <<countCache, unitVars, handlerVars>>
    /\ UNCHANGED <<clientVars, moreVars>>

\* a getCountCache(key) call on its own
CacheGet(key) ==
    /\ cacheOps < MaxCacheOps
    /\ LET got == getCountCache(countCache, key, now)
       IN  /\ countCache' = got.cache
           /\ lastGet' = [key |-> key, at |-> now, result |-> got.result,
                          n |-> cacheOps + 1]
    /\ reads' = MapSet(reads, key, IF key \in DOMAIN reads THEN reads[key] + 1 ELSE 1)
    /\ cacheOps' = cacheOps + 1
    /\ UNCHANGED <<clockVars, written, handlerVars>>
    /\ UNCHANGED <<clientVars, moreVars>>

\* a setCountCache(key, value) call on its own
CacheSet(key, value) ==
    /\ cacheOps < MaxCacheOps
    /\ countCache' = setCountCache(countCache, key, value, now)
    /\ written' = MapSet(written, key, [value |-> value, at |-> now])
    /\ reads' = MapSet(reads, key, 0)
    /\ cacheOps' = cacheOps + 1
    /\ UNCHANGED <<clockVars, lastGet, handlerVars>>
    /\ UNCHANGED <<clientVars, moreVars>>

\* res.json({ rows, totalCount, request, meta })
Response(q, sortSpec, resultRows, total, fromCache, countTime) ==
    [rows |-> resultRows,
     totalCount |-> total,
     request |-> [page |-> q.page, pageSize |-> q.pageSize, sort |-> q.sort,
                  status |-> q.status, search |-> q.search],
     meta |-> [queryTimeMs |-> 0,
               countTimeMs |-> countTime,
               countFromCache |-> fromCache,
               countCacheTtlMs |-> COUNT_CACHE_TTL_MS,
               page |-> q.page,
               pageSize |-> q.pageSize,
               sort |-> sortSpec.field \o <<":">>
                        \o (IF sortSpec.dir = "ASC" THEN TextAsc ELSE TextDesc),
               status |-> q.status,
               search |-> q.search]]

\* app.get("/api/users"): the handler for the parsed query q; the COUNT, when
\* it runs, takes countTime
GetUsers(q, countTime) ==
    /\ served < MaxRequests
    /\ \E sortSpec \in {parseSort(q.sort)}, key \in {CountCacheKey(q)},
          matching \in {{r \in db : MatchesWhere(r, q)}} :
         \E got \in {getCountCache(countCache, key, now)},
            ordered \in QueryOrders(matching, sortSpec.field, sortSpec.dir) :
           \E resultRows \in {LimitOffset(ordered, q.pageSize, (q.page - 1) * q.pageSize)} :
             IF ~got.result.isNull
             THEN /\ countTime = 0
                  /\ countCache' = got.cache
                  /\ now' = now
                  /\ entryInfo' = entryInfo
                  /\ hitInfo' = entryInfo[key]
                  /\ res' = Response(q, sortSpec, resultRows,
                                     got.result.value, TRUE, 0)
             ELSE \E counted \in {CountRows(db, q)} :
                  /\ now' = now + countTime
                  /\ countCache' = setCountCache(got.cache, key, counted,
                                                 now + countTime)
                  /\ entryInfo' = MapSet(entryInfo, key,
                                         [filter |-> Normalized(q), request |-> q,
                                          counted |-> counted,
                                          countedAt |-> now,
                                          writtenAt |-> now + countTime])
                  /\ hitInfo' = nullObject
                  /\ res' = Response(q, sortSpec, resultRows,
                                     counted, FALSE, countTime)
    /\ served' = served + 1
    /\ UNCHANGED <<ticks, unitVars, db, inserts>>
    /\ UNCHANGED <<clientVars, moreVars>>

(***************************************************************************)
(* Specifications                                                          *)
(***************************************************************************)
\* the state after the first render and its effect: one timer pending
ClientInit ==
    /\ rows = EmptyRows
    /\ totalCount = 0
    /\ page = 1
    /\ pageSize = DefaultPageSize
    /\ search = <<>>
    /\ status = ""
    /\ sort = "createdAt:desc"
    /\ apiResRequest = nullObject
    /\ meta = nullObject
    /\ fetchTotalLog = [call |-> 0]
    /\ abortRef = 0
    /\ reqIdRef = 0
    /\ timers = SetTimeout({}, 1, QueryState(1, DefaultPageSize, "createdAt:desc", <<>>, ""))
    /\ effectTimer = 1
    /\ aborted = <<>>
    /\ calls = <<>>
    /\ consoleErrors = <<>>
    /\ changes = 0
    /\ arrivals = <<>>

\* the API process after start, on a seeded table
ServerInit ==
    /\ now = 0
    /\ ticks = 0
    /\ countCache = <<>>
    /\ cacheOps = 0
    /\ written = <<>>
    /\ reads = <<>>
    /\ lastGet = nullObject
    /\ db = SeededTable
    /\ res = nullObject
    /\ served = 0
    /\ inserts = 0
    /\ entryInfo = <<>>
    /\ hitInfo = nullObject

\* no pure function called, no cursor request made, no request in progress
PureInit == arg = nullObject /\ out = nullObject
CursorInit == cursorRes = nullObject /\ walk = nullObject
ProcsInit == procs = <<>>

Init == ClientInit /\ ServerInit /\ PureInit /\ CursorInit /\ ProcsInit

ClientNext ==
    \/ \E v \in SearchInputs : SearchChanged(v)
    \/ \E v \in StatusInputs : StatusChanged(v)
    \/ \E v \in PageSizeInputs : PageSizeChanged(v)
    \/ \E v \in SortInputs : SortChanged(v)
    \/ PrevPage
    \/ NextPage
    \/ \E p \in PageOptions : PageSelected(p)
    \/ \E d \in ElapseSteps : Elapse(d)
    \/ \E t \in timers : TimerFires(t)
    \/ \E k \in DOMAIN calls : FetchResolves(k)
    \/ \E k \in DOMAIN calls, tc \in TotalCounts : JsonResolves(k, tc)
    \/ \E k \in DOMAIN calls, e \in OtherErrors \cup {AbortError} : AwaitRejects(k, e)

Next == ClientNext

\* the request sequencer of the grid client
Spec == Init /\ [][Next]_vars

\* the COUNT cache on its own: get, set and the clock
CacheNext ==
    \/ \E key \in KeysUnderTest : CacheGet(key)
    \/ \E key \in KeysUnderTest, value \in CountValues : CacheSet(key, value)
    \/ \E d \in TickSteps : Tick(d)

CacheSpec == Init /\ [][CacheNext]_vars

\* the API server: requests, the clock and the table's writer
ServerNext ==
    \/ \E q \in Queries, countTime \in CountDurations : GetUsers(q, countTime)
    \/ \E d \in ServerTickSteps : Tick(d)
    \/ InsertUser

ServerSpec == Init /\ [][ServerNext]_vars

\* call k leaves one of its awaits
Completes(k) ==
    \/ FetchResolves(k)
    \/ \E tc \in TotalCounts : JsonResolves(k, tc)
    \/ \E e \in OtherErrors \cup {AbortError} : AwaitRejects(k, e)

\* a step of the event loop or of the network, as opposed to a user input
SystemStep ==
    \/ \E d \in ElapseSteps : Elapse(d)
    \/ \E t \in timers : TimerFires(t)
    \/ \E k \in DOMAIN calls : Completes(k)

\* time passes, due timer callbacks run and network calls end: the system
\* does not stop while one of these is possible (the user may stop typing)
LiveSpec == Spec /\ WF_vars(SystemStep)

\* the user changes a parameter of the grid
UserInput ==
    \/ \E v \in SearchInputs : SearchChanged(v)
    \/ \E v \in StatusInputs : StatusChanged(v)
    \/ \E v \in PageSizeInputs : PageSizeChanged(v)
    \/ \E v \in SortInputs : SortChanged(v)
    \/ PrevPage
    \/ NextPage
    \/ \E p \in PageOptions : PageSelected(p)

\* `await res.json()` of call k resolves while a change of the parameters,
\* made after k was sent, is waiting in its debounce
AnswerInWindow(k, tc) ==
    /\ k \in DOMAIN calls
    /\ timers # {}
    /\ \A t \in timers : t.q # calls[k].q
    /\ JsonResolves(k, tc)

\* the client on a network whose answers all come in while a newer change is
\* waiting; everything else as in Spec
WindowNext ==
    \/ UserInput
    \/ \E d \in ElapseSteps : Elapse(d)
    \/ \E t \in timers : TimerFires(t)
    \/ \E k \in DOMAIN calls : FetchResolves(k)
    \/ \E k \in DOMAIN calls, tc \in TotalCounts : AnswerInWindow(k, tc)
    \/ \E k \in DOMAIN calls, e \in OtherErrors \cup {AbortError} : AwaitRejects(k, e)

WindowSpec == Init /\ [][WindowNext]_vars

(***************************************************************************)
(* GET /api/users-cursor: actions                                          *)
(***************************************************************************)
\* the query string of a cursor request
CursorQuery(ps, se, st, cc, ci) ==
    [pageSize |-> ps, search |-> se, status |-> st,
     cursorCreatedAt |-> cc, cursorId |-> ci]

\* a cursorCreatedAt parameter, by the instant its text stands for
Stamp(c) == [given |-> TRUE, at |-> c]

\* what the handler leaves in `res`: the answer, or nothing when the row
\* query throws (SQLite refuses a LIMIT that is not an integer)
CursorResult(table, rq) ==
    IF CursorPageSize(rq).nan
    THEN [request |-> rq, thrown |-> TRUE]
    ELSE [request |-> rq, thrown |-> FALSE, answer |-> CursorAnswer(table, rq)]

\* app.get("/api/users-cursor"): the handler for the query string rq
GetUsersCursor(rq) ==
    /\ cursorRes' = CursorResult(db, rq)
    /\ UNCHANGED <<clientVars, clockVars, countCache, unitVars, handlerVars,
                   pureVars, walk, procs>>

\* INSERT INTO users by another writer, in the same millisecond as an
\* earlier row; a walk, once begun, is on a table that is not written
InsertTiedUser(c) ==
    /\ inserts < MaxInserts
    /\ walk = nullObject
    /\ c \in {r.createdAt : r \in db}
    /\ db' = db \cup {[SeedRow(Cardinality(db) + 1) EXCEPT !.createdAt = c]}
    /\ inserts' = inserts + 1
    /\ UNCHANGED <<clockVars, countCache, unitVars, res, served, entryInfo, hitInfo>>
    /\ UNCHANGED <<clientVars, moreVars>>

\* a client asks for page one: no cursor
WalkStart(ps, se, st) ==
    /\ walk = nullObject
    /\ \E result \in {CursorResult(db, CursorQuery(ps, se, st, NoParam, NoParam))} :
          /\ ~result.thrown
          /\ cursorRes' = result
          /\ walk' = [first |-> result.request, calls |-> 1,
                      pages |-> result.answer.rows,
                      next |-> result.answer.nextCursor]
    /\ UNCHANGED <<clientVars, clockVars, countCache, unitVars, handlerVars,
                   pureVars, procs>>

\* the client asks for the page after the last one: the nextCursor it got,
\* written into the query string
WalkNext ==
    /\ walk # nullObject
    /\ ~walk.next.isNull
    /\ \E result \in {CursorResult(db, [walk.first EXCEPT
                    !.cursorCreatedAt = Stamp(walk.next.cursorCreatedAt),
                    !.cursorId = Param(NumberText(walk.next.cursorId))])} :
          /\ cursorRes' = result
          /\ walk' = [walk EXCEPT !.calls = @ + 1,
                                  !.pages = @ \o result.answer.rows,
                                  !.next = result.answer.nextCursor]
    /\ UNCHANGED <<clientVars, clockVars, countCache, unitVars, handlerVars,
                   pureVars, procs>>

\* query strings of cursor requests: page sizes, filters, and cursors that
\* are complete, partial, or hold an id that is not an integer
CursorPageSizes == {Param(<<"1">>), Param(<<"2">>)}
CursorStatuses == {NoParam, Param(TextINACTIVE)}
CursorStamps == {NoParam, Stamp(0 - 1), Stamp(0 - 2)}
CursorIds ==
    {NoParam, Param(<<"2">>), Param(<<"3">>), Param(<<"x">>), Param(<<"2", ".", "5">>)}
CursorProbes ==
    {CursorQuery(ps, NoParam, st, cc, ci) :
        ps \in CursorPageSizes, st \in CursorStatuses,
        cc \in CursorStamps, ci \in CursorIds}

\* walks: page sizes, one of them the default, and filters
WalkPageSizes == CursorPageSizes \cup {NoParam}
WalkSearches == {NoParam, Param(<<" ", "e", "r", " ">>)}

\* the cursor endpoint under single requests
CursorNext ==
    \/ \E rq \in CursorProbes : GetUsersCursor(rq)
    \/ \E c \in {r.createdAt : r \in db} : InsertTiedUser(c)

CursorSpec == Init /\ [][CursorNext]_vars

\* the cursor endpoint under a client that walks it
WalkStep ==
    \/ \E ps \in WalkPageSizes, se \in WalkSearches, st \in CursorStatuses :
          WalkStart(ps, se, st)
    \/ WalkNext

WalkStepOrInsert ==
    \/ WalkStep
    \/ \E c \in {r.createdAt : r \in db} : InsertTiedUser(c)

WalkSpec == Init /\ [][WalkStepOrInsert]_vars

\* the client goes on asking until it is told there is no next page
WalkLiveSpec == WalkSpec /\ WF_vars(WalkStep)

(***************************************************************************)
(* parseSort on its own                                                    *)
(***************************************************************************)
\* field and direction texts of the sort strings tried
SortFieldTexts ==
    AllowedFields \cup {<<>>, <<"N", "a", "m", "e">>, <<"i", "d", ";">>, <<"i", "d", " ">>}
SortDirTexts ==
    {<<>>, <<":">>, <<":">> \o TextAsc, <<":", "A", "S", "C">>, <<":", "A", "s", "c">>,
     <<":">> \o TextDesc, <<":", "a", "s">>, <<":", "a", "s", "c", " ">>,
     <<":", "a", "s", "c", ":", "x">>}
SortStrings == {f \o d : f \in SortFieldTexts, d \in SortDirTexts}

\* const { field, dir } = parseSort(sort)
ParseSortCall ==
    /\ out = nullObject
    /\ out' = parseSort(arg)
    /\ UNCHANGED <<clientVars, clockVars, countCache, unitVars, handlerVars,
                   arg, cursorVars, procs>>

SortInit ==
    /\ ClientInit /\ ServerInit /\ CursorInit /\ ProcsInit
    /\ arg \in SortStrings
    /\ out = nullObject

SortSpec == SortInit /\ [][ParseSortCall]_vars

(***************************************************************************)
(* The filter normalization on its own                                     *)
(***************************************************************************)
RECURSIVE TextsUpTo(_, _)
TextsUpTo(chars, n) ==
    IF n = 0 THEN {<<>>}
    ELSE LET shorter == TextsUpTo(chars, n - 1)
         IN  shorter \cup {Append(t, c) : t \in shorter, c \in chars}

\* the filters given to the normalization
SearchChars == {" ", "\t", "a"}
FilterSpecs ==
    {[status |-> st, search |-> se] :
        st \in {null, "ACTIVE", "INACTIVE"}, se \in TextsUpTo(SearchChars, MaxSearchLen)}

\* a normalized filter given as a filter again: status as it is, and a null
\* search, which is falsy in `search && ...` as "" is
AsFilter(n) ==
    [status |-> n.status,
     search |-> IF n.search.isNull THEN <<>> ELSE n.search.text]

\* the filter fetchData sends for what the user typed: the search trimmed,
\* and not sent when empty
SentFilter(f) ==
    [status |-> f.status,
     search |-> RequestParams(QueryState(1, DefaultPageSize, "createdAt:desc",
                                         f.search, "")).search]

\* const normalized = { status: status ?? null, search: ... }
NormalizeCall ==
    /\ out = nullObject
    /\ out' = [n |-> 1, value |-> Normalized(arg), sent |-> Normalized(SentFilter(arg))]
    /\ UNCHANGED <<clientVars, clockVars, countCache, unitVars, handlerVars,
                   arg, cursorVars, procs>>

\* the same statement run on its own result
RenormalizeCall ==
    /\ out # nullObject
    /\ out.n = 1
    /\ out' = [n |-> 2, value |-> Normalized(AsFilter(out.value)), first |-> out.value]
    /\ UNCHANGED <<clientVars, clockVars, countCache, unitVars, handlerVars,
                   arg, cursorVars, procs>>

NormalizeInit ==
    /\ ClientInit /\ ServerInit /\ CursorInit /\ ProcsInit
    /\ arg \in FilterSpecs
    /\ out = nullObject

NormalizeNext == NormalizeCall \/ RenormalizeCall

NormalizeSpec == NormalizeInit /\ [][NormalizeNext]_vars

(***************************************************************************)
(* GET /api/users, page after page                                         *)
(***************************************************************************)
\* sorts on a field whose values repeat and on a field whose values do not
SortStatusAsc == FieldStatus \o <<":">> \o TextAsc
SortIdDesc == FieldId \o <<":">> \o TextDesc

\* requests for the first pages of two filters under two sorts
PagingQueries ==
    {ParsedQuery(p, ps, <<>>, st, so) :
        p \in 1 .. 3, ps \in 1 .. 2, st \in {null, "INACTIVE"},
        so \in {SortStatusAsc, SortIdDesc}}

PagingNext == \E q \in PagingQueries : GetUsers(q, 0)

PagingSpec == Init /\ [][PagingNext]_vars

(***************************************************************************)
(* Request sequencer: properties                                           *)
(***************************************************************************)
uiResult == <<rows, totalCount, apiResRequest, meta, fetchTotalLog>>

\* the UI-facing result is exactly the answer json
Shows(json) ==
    /\ rows = json.rows
    /\ totalCount = json.totalCount
    /\ apiResRequest = json.request
    /\ meta = json.meta

\* the UI-facing result after this step is exactly the answer json
ShowsNext(json) ==
    /\ rows' = json.rows
    /\ totalCount' = json.totalCount
    /\ apiResRequest' = json.request
    /\ meta' = json.meta

\* call k's answer is processed in this step
AnswerProcessed(k) ==
    /\ k \in DOMAIN calls
    /\ calls[k].pc = "json"
    /\ calls'[k].pc = "done"
    /\ calls'[k].json # nullObject

\* call k's failure is processed in this step
FailureProcessed(k) ==
    /\ k \in DOMAIN calls
    /\ calls[k].pc # "done"
    /\ calls'[k].pc = "done"
    /\ calls'[k].json = nullObject

\* nothing is pending and the last request was sent for the current inputs
Settled ==
    /\ timers = {}
    /\ reqIdRef >= 1
    /\ \A k \in DOMAIN calls : calls[k].pc = "done"
    /\ calls[reqIdRef].q = CurrentQuery

\* C1: after the last parameter change, whatever the order in which the
\* answers arrive, the UI-facing result eventually equals the answer of the
\* request sent for the final parameter values, and keeps it from then on.
C1_Converges ==
    <>[](/\ Settled
         /\ (calls[reqIdRef].json # nullObject => Shows(calls[reqIdRef].json)))

C1_Witness ==
    /\ Settled
    /\ reqIdRef = 3
    /\ arrivals = <<3, 2, 1>>
    /\ Shows(calls[3].json)

\* C2: an answer is written into the UI-facing result only when its request
\* id equals the highest id issued at that moment; an answer with a lower id
\* changes nothing of rows, totalCount, request echo, meta and timing log.
C2_StaleSuppressed ==
    [][/\ \A k \in DOMAIN calls :
            AnswerProcessed(k) =>
               (IF k = reqIdRef
                THEN /\ ShowsNext(calls'[k].json)
                     /\ fetchTotalLog' = [call |-> k]
                ELSE uiResult' = uiResult)
       /\ (uiResult' # uiResult => AnswerProcessed(reqIdRef))]_vars

C2_Witness ==
    /\ arrivals = <<3, 1, 2>>
    /\ calls[1].outcome = "Superseded"
    /\ calls[2].outcome = "Superseded"
    /\ calls[3].outcome = "Applied"
    /\ Shows(calls[3].json)

\* C3: every dispatch takes the id one above the previous one and aborts
\* the controller of the previous request, so at most one issued request has
\* a signal that is not aborted, and it is the request with the highest id.
C3_OnlyLatestNotAborted ==
    \A k \in DOMAIN calls : ~aborted[calls[k].controller] => k = reqIdRef

C3_Dispatch ==
    /\ [](C3_OnlyLatestNotAborted /\ DOMAIN calls = 1 .. reqIdRef)
    /\ [][reqIdRef' # reqIdRef =>
            (/\ reqIdRef' = reqIdRef + 1
             /\ (reqIdRef >= 1 => aborted'[calls[reqIdRef].controller])
             /\ ~aborted'[calls'[reqIdRef'].controller])]_vars

C3_Witness ==
    /\ reqIdRef = 3
    /\ calls[2].pc # "done"
    /\ aborted[calls[1].controller]
    /\ aborted[calls[2].controller]
    /\ ~aborted[calls[3].controller]

\* C4: a parameter change leaves exactly one pending timer, the new one; a
\* request is dispatched only by the elapsed timer of the latest change and
\* carries the current parameter values, and no timer is left after it, so a
\* burst of changes inside the debounce period gives exactly one request.
C4_Debounce ==
    /\ [](Cardinality(timers) <= 1)
    /\ [][/\ (CurrentQuery' # CurrentQuery =>
                (/\ timers' = {[id |-> effectTimer', q |-> CurrentQuery',
                                remaining |-> DEBOUNCE_MS]}
                 /\ reqIdRef' = reqIdRef))
           /\ (reqIdRef' # reqIdRef =>
                (/\ \E t \in timers :
                       /\ t.id = effectTimer
                       /\ t.remaining = 0
                       /\ t.q = CurrentQuery
                 /\ calls'[reqIdRef'].q = CurrentQuery
                 /\ timers' = {}))]_vars

C4_Witness ==
    /\ changes = 2
    /\ reqIdRef = 1
    /\ timers = {}
    /\ calls[1].q = CurrentQuery
    /\ search # <<>>

\* C5: the failure of a request that is no longer the latest one changes
\* nothing of the UI-facing result and is not reported to console.error.
C5_StaleFailureSilent ==
    [][\A k \in DOMAIN calls :
          (FailureProcessed(k) /\ k # reqIdRef) =>
             (/\ uiResult' = uiResult
              /\ consoleErrors' = consoleErrors)]_vars

\* C6: when the request with the highest id issued fails with an error that
\* is not a cancellation, the failure is reported: the request ends Failed
\* and the error reaches console.error.
C6_CurrentFailureSurfaced ==
    [][\A k \in DOMAIN calls :
          (FailureProcessed(k) /\ k = reqIdRef) =>
             (/\ calls'[k].outcome = "Failed"
              /\ Len(consoleErrors') = Len(consoleErrors) + 1
              /\ consoleErrors'[Len(consoleErrors')].call = k)]_vars

C6_Witness ==
    \E i \in DOMAIN consoleErrors :
        /\ consoleErrors[i].call = consoleErrors[i].latest
        /\ calls[consoleErrors[i].call].outcome = "Failed"

(***************************************************************************)
(* COUNT cache: properties                                                 *)
(***************************************************************************)
\* this step is a getCountCache call made on its own
GetStep == lastGet' # lastGet

\* this step is a setCountCache call made on its own
SetStep == written' # written

\* C7 as stated: a get of a key set at time t returns the value set while
\* less than the TTL has passed, whatever the number of gets before it, and
\* returns absent at every time >= t + TTL.
C7_AbsentFromTtl ==
    [][GetStep =>
         LET key == lastGet'.key
         IN  key \in DOMAIN written =>
               IF now < written[key].at + COUNT_CACHE_TTL_MS
               THEN lastGet'.result = Found(written[key].value)
               ELSE lastGet'.result = Absent]_vars

\* C7 as amended: a get of a key set at time t returns the value set at every
\* time <= t + TTL, whatever the number of gets before it, and returns absent
\* at every time > t + TTL.
C7_FixedTtl ==
    [][GetStep =>
         LET key == lastGet'.key
         IN  key \in DOMAIN written =>
               IF now <= written[key].at + COUNT_CACHE_TTL_MS
               THEN lastGet'.result = Found(written[key].value)
               ELSE lastGet'.result = Absent]_vars

C7_Witness ==
    /\ lastGet # nullObject
    /\ lastGet.key \in DOMAIN written
    /\ reads[lastGet.key] >= 2
    /\ lastGet.at = written[lastGet.key].at + COUNT_CACHE_TTL_MS
    /\ lastGet.result = Found(written[lastGet.key].value)

\* C8: a get returns a value only from an entry whose expiresAt has not
\* passed; a get that finds an expired entry returns absent and removes that
\* entry only; a get that finds a live entry or none leaves the map as it is;
\* and an entry disappears or changes only by a get that finds it expired or
\* by a set of its key.
C8_LazyEviction ==
    [][/\ GetStep =>
            LET key == lastGet'.key
                present == key \in DOMAIN countCache
                expired == present /\ countCache[key].expiresAt < now
            IN  /\ ~lastGet'.result.isNull =>
                      (present /\ ~expired
                       /\ lastGet'.result.value = countCache[key].value)
                /\ ~present => lastGet'.result.isNull
                /\ expired => (/\ lastGet'.result.isNull
                               /\ countCache' = MapDelete(countCache, key))
                /\ ~expired => countCache' = countCache
       /\ \A key \in DOMAIN countCache :
            (key \notin DOMAIN countCache' \/ countCache'[key] # countCache[key]) =>
               \/ (GetStep /\ lastGet'.key = key /\ countCache[key].expiresAt < now)
               \/ (SetStep /\ written'[key].at = now
                   /\ countCache'[key] = [value |-> written'[key].value,
                                          expiresAt |-> now + COUNT_CACHE_TTL_MS])]_vars

C8_Witness ==
    /\ lastGet # nullObject
    /\ lastGet.result.isNull
    /\ lastGet.key \in DOMAIN written
    /\ lastGet.at > written[lastGet.key].at + COUNT_CACHE_TTL_MS
    /\ lastGet.key \notin DOMAIN countCache
    /\ DOMAIN countCache # {}

(***************************************************************************)
(* GET /api/users: properties                                              *)
(***************************************************************************)
\* this step handles a request
HandledStep == served' = served + 1

\* requests with the same normalized filter have the same cache key
SameFilterSameKey ==
    \A q1, q2 \in Queries :
        Normalized(q1) = Normalized(q2) => CountCacheKey(q1) = CountCacheKey(q2)

\* C9: requests with equal normalized filters use the same cache key, and a
\* request whose normalized filter equals that of a cache entry still
\* within its TTL is answered from that entry, with countFromCache = true and
\* the entry's totalCount, whatever its page, pageSize and sort; otherwise
\* totalCount is the number of rows matching the filter.
C9_KeyIgnoresPaging ==
    /\ []SameFilterSameKey
    /\ [][HandledStep =>
            /\ \A key \in DOMAIN countCache :
                  (/\ entryInfo[key].filter = Normalized(res'.request)
                   /\ now <= entryInfo[key].writtenAt + COUNT_CACHE_TTL_MS) =>
                     (/\ res'.meta.countFromCache
                      /\ res'.totalCount = countCache[key].value)
            /\ ~res'.meta.countFromCache =>
                  res'.totalCount = Cardinality({r \in db : MatchesWhere(r, res'.request)})]_vars

C9_Witness ==
    /\ res # nullObject
    /\ res.meta.countFromCache
    /\ hitInfo.request.page # res.request.page
    /\ hitInfo.request.pageSize # res.request.pageSize
    /\ hitInfo.request.sort # res.request.sort
    /\ hitInfo.request.search # res.request.search
    /\ res.totalCount # Cardinality({r \in db : MatchesWhere(r, res.request)})

\* statuses and search texts, with quotes, backslashes, braces and commas
KeyTestChars == {"a", " ", "\"", "\\", "}", ","}
KeyTestTexts ==
    {<<>>} \cup {<<c>> : c \in KeyTestChars}
           \cup {<<c, d>> : c \in KeyTestChars, d \in KeyTestChars}
KeyTestQueries ==
    {ParsedQuery(1, 2, se, st, SortCreatedAtDesc) :
        se \in KeyTestTexts, st \in {null, "ACTIVE", "INACTIVE"}}

\* requests with different normalized filters have different cache keys
KeysDistinct ==
    \A q1, q2 \in KeyTestQueries :
        Normalized(q1) # Normalized(q2) => CountCacheKey(q1) # CountCacheKey(q2)

\* C10: requests whose normalized filters differ have different cache keys,
\* so each cache entry is only ever that of one filter and an answer served
\* from the cache comes from an entry written for the request's own filter.
C10_CacheIsolation ==
    /\ KeysDistinct
    /\ \A key \in DOMAIN countCache : key = CountCacheKey(entryInfo[key].request)
    /\ (res # nullObject /\ res.meta.countFromCache) =>
          hitInfo.filter = Normalized(res.request)

C10_Witness ==
    /\ served = 2
    /\ ~res.meta.countFromCache
    /\ Cardinality(DOMAIN countCache) = 2
    /\ res.request.search = <<"\"">>
    /\ \E key \in DOMAIN countCache :
          /\ entryInfo[key].filter.status = res.request.status
          /\ entryInfo[key].filter.search = [isNull |-> FALSE, text |-> <<"1">>]
          /\ now <= entryInfo[key].writtenAt + COUNT_CACHE_TTL_MS

(***************************************************************************)
(* parseSort: properties                                                   *)
(***************************************************************************)
\* positions of the colons of a text
ColonsOf(s) == {i \in 1 .. Len(s) : s[i] = ":"}
Least(S) == CHOOSE i \in S : \A j \in S : i <= j

\* the text before the first colon: the requested field
RequestedField(s) ==
    IF ColonsOf(s) = {} THEN s ELSE SubSeq(s, 1, Least(ColonsOf(s)) - 1)

\* the text between the first colon and the second: the requested direction
RequestedDir(s) ==
    IF ColonsOf(s) = {} THEN <<>>
    ELSE LET first == Least(ColonsOf(s))
             later == {i \in ColonsOf(s) : i > first}
         IN  SubSeq(s, first + 1, IF later = {} THEN Len(s) ELSE Least(later) - 1)

\* the text is 'asc' in any letter case
IsAscText(d) ==
    /\ Len(d) = 3
    /\ d[1] \in {"a", "A"}
    /\ d[2] \in {"s", "S"}
    /\ d[3] \in {"c", "C"}

\* the ORDER BY texts an allowlisted field and a direction can give
SafeOrderByTexts ==
    {f \o <<" ">> \o d : f \in AllowedFields,
                         d \in {<<"A", "S", "C">>, <<"D", "E", "S", "C">>}}

\* C11: the field parseSort returns is an allowlisted one: the requested
\* field when it is allowlisted, createdAt otherwise; the direction is ASC
\* exactly when the requested direction is 'asc' in any letter case, DESC
\* otherwise; the ORDER BY text is built from these two only.
C11_SortAllowlist ==
    out # nullObject =>
       /\ out.field \in AllowedFields
       /\ out.field = (IF RequestedField(arg) \in AllowedFields
                       THEN RequestedField(arg) ELSE FieldCreatedAt)
       /\ out.dir = (IF IsAscText(RequestedDir(arg)) THEN "ASC" ELSE "DESC")
       /\ OrderByText(out) \in SafeOrderByTexts

C11_Witness ==
    /\ arg = <<"i", "d", ";", ":", "A", "S", "C">>
    /\ out = [field |-> FieldCreatedAt, dir |-> "ASC"]

(***************************************************************************)
(* Filter normalization: properties                                        *)
(***************************************************************************)
\* t is s without the white space at its two ends
IsTrimOf(t, s) ==
    IF \A i \in 1 .. Len(s) : IsSpace(s[i]) THEN t = <<>>
    ELSE /\ ~IsSpace(t[1])
         /\ ~IsSpace(t[Len(t)])
         /\ \E i \in 0 .. Len(s) - Len(t) :
               /\ SubSeq(s, i + 1, i + Len(t)) = t
               /\ \A j \in (1 .. i) \cup (i + Len(t) + 1 .. Len(s)) : IsSpace(s[j])

\* C12: the normalized filter keeps the status, holds the search without the
\* white space at its ends, or null when nothing is left; normalizing it
\* again gives the same normalized filter, and so does normalizing the
\* filter the client sends after its own trim.
C12_NormalizeIdempotent ==
    /\ (out # nullObject /\ out.n = 1) =>
          /\ out.value.status = arg.status
          /\ out.value.search.isNull = (\A i \in 1 .. Len(arg.search) : IsSpace(arg.search[i]))
          /\ ~out.value.search.isNull => IsTrimOf(out.value.search.text, arg.search)
          /\ out.sent = out.value
    /\ (out # nullObject /\ out.n = 2) => out.value = out.first

C12_Witness ==
    /\ out # nullObject
    /\ out.n = 2
    /\ arg.search = <<" ", "a", "\t">>
    /\ arg.status = "ACTIVE"
    /\ out.value = [status |-> "ACTIVE", search |-> [isNull |-> FALSE, text |-> <<"a">>]]

(***************************************************************************)
(* Offset paging: properties                                               *)
(***************************************************************************)
\* request b asks for the page after the one of request a, all else equal
IsNextPageOf(b, a) ==
    /\ b.page = a.page + 1
    /\ b.pageSize = a.pageSize
    /\ b.sort = a.sort
    /\ b.status = a.status
    /\ b.search = a.search

\* the rows first and then second are the positions (P-1)*pageSize+1 ..
\* (P+1)*pageSize of one sorted arrangement of the rows matching rq
AreTwoPagesOf(first, second, table, rq) ==
    LET matching == {r \in table : MatchesWhere(r, rq)}
        sortSpec == parseSort(rq.sort)
    IN  \E ordered \in QueryOrders(matching, sortSpec.field, sortSpec.dir) :
           first \o second = LimitOffset(ordered, 2 * rq.pageSize,
                                         (rq.page - 1) * rq.pageSize)

\* C13: when page P and then page P+1 of the same filter, sort and pageSize
\* are requested with no change of the table in between, the two answers
\* share no row and together are the rows at positions (P-1)*pageSize+1 ..
\* (P+1)*pageSize of the filtered, sorted result.
C13_PagesPartition ==
    [][(HandledStep /\ res # nullObject /\ IsNextPageOf(res'.request, res.request)) =>
          /\ {res.rows[i] : i \in DOMAIN res.rows}
               \cap {res'.rows[i] : i \in DOMAIN res'.rows} = {}
          /\ AreTwoPagesOf(res.rows, res'.rows, db, res.request)]_vars

\* C13 on a sort field whose values differ from row to row: the two answers
\* are consecutive, disjoint slices of the sorted result.
C13_PagesPartitionUniqueField ==
    [][(HandledStep /\ res # nullObject /\ IsNextPageOf(res'.request, res.request)
        /\ parseSort(res.request.sort).field = FieldId) =>
          /\ {res.rows[i] : i \in DOMAIN res.rows}
               \cap {res'.rows[i] : i \in DOMAIN res'.rows} = {}
          /\ AreTwoPagesOf(res.rows, res'.rows, db, res.request)]_vars

(***************************************************************************)
(* GET /api/users: the query string and QuerySchema                        *)
(***************************************************************************)
\* a text made of digits only
AllDigits(t) == t # <<>> /\ \A i \in DOMAIN t : IsDigit(t[i])

\* the index of the first "." of t, 0 when there is none
DotAt(t) ==
    IF \E i \in DOMAIN t : t[i] = "."
    THEN CHOOSE i \in DOMAIN t : t[i] = "." /\ \A j \in 1 .. i - 1 : t[j] # "."
    ELSE 0

\* Number(text) for decimal texts: white space trimmed, "" is 0, an optional
\* sign, digits, an optional fraction; NaN otherwise.  `integer` tells whether
\* the number has no fractional part, `value` is its integer part.
ToNumber(s) ==
    LET t == Trim(s)
        signed == t # <<>> /\ Head(t) \in {"-", "+"}
        body == IF signed THEN Tail(t) ELSE t
        dot == DotAt(body)
        whole == IF dot = 0 THEN body ELSE SubSeq(body, 1, dot - 1)
        fraction == IF dot = 0 THEN <<>> ELSE SubSeq(body, dot + 1, Len(body))
        magnitude == DigitsPrefix(whole, 0)
    IN  IF t = <<>> THEN [nan |-> FALSE, integer |-> TRUE, value |-> 0]
        ELSE IF AllDigits(whole) /\ (dot = 0 \/ AllDigits(fraction))
        THEN [nan |-> FALSE,
              integer |-> \A i \in DOMAIN fraction : fraction[i] = "0",
              value |-> IF signed /\ Head(t) = "-" THEN 0 - magnitude ELSE magnitude]
        ELSE [nan |-> TRUE, integer |-> FALSE, value |-> 0]

Invalid == [success |-> FALSE]
Valid(v) == [success |-> TRUE, value |-> v]

\* z.coerce.number().int().min(1).default(1)
ZodPage(p) ==
    IF ~p.given THEN Valid(SchemaDefaultPage)
    ELSE LET n == ToNumber(p.text)
         IN  IF ~n.nan /\ n.integer /\ n.value >= 1 THEN Valid(n.value) ELSE Invalid

\* z.coerce.number().int().min(1).max(1000000).default(50)
ZodPageSize(p) ==
    IF ~p.given THEN Valid(SchemaDefaultPageSize)
    ELSE LET n == ToNumber(p.text)
         IN  IF ~n.nan /\ n.integer /\ n.value >= 1 /\ n.value <= SchemaMaxPageSize
             THEN Valid(n.value)
             ELSE Invalid

\* z.string().optional().default("")
ZodSearch(p) == Valid(IF p.given THEN p.text ELSE <<>>)

\* z.enum(["ACTIVE", "INACTIVE"]).optional()
ZodStatus(p) ==
    IF ~p.given THEN Valid(null)
    ELSE IF p.text = TextACTIVE THEN Valid("ACTIVE")
    ELSE IF p.text = TextINACTIVE THEN Valid("INACTIVE")
    ELSE Invalid

\* z.string().optional().default("createdAt:desc")
ZodSort(p) == Valid(IF p.given THEN p.text ELSE SortCreatedAtDesc)

\* req.query of GET /api/users
RawQuery(p, ps, se, st, so) ==
    [page |-> p, pageSize |-> ps, search |-> se, status |-> st, sort |-> so]

\* QuerySchema.safeParse(req.query)
SafeParse(raw) ==
    IF /\ ZodPage(raw.page).success
       /\ ZodPageSize(raw.pageSize).success
       /\ ZodSearch(raw.search).success
       /\ ZodStatus(raw.status).success
       /\ ZodSort(raw.sort).success
    THEN [success |-> TRUE,
          data |-> ParsedQuery(ZodPage(raw.page).value,
                               ZodPageSize(raw.pageSize).value,
                               ZodSearch(raw.search).value,
                               ZodStatus(raw.status).value,
                               ZodSort(raw.sort).value)]
    ELSE [success |-> FALSE]

\* res.status(400).json({ message: "Invalid query", issues })
BadRequest == [status |-> 400, message |-> "Invalid query"]

\* app.get("/api/users") from the query string: 400 when the schema refuses
\* it, the handler on the parsed data otherwise
HandleGetUsers(raw, countTime) ==
    \E parsed \in {SafeParse(raw)} :
       IF parsed.success
       THEN GetUsers(parsed.data, countTime)
       ELSE /\ served < MaxRequests
            /\ countTime = 0
            /\ res' = BadRequest
            /\ served' = served + 1
            /\ UNCHANGED <<clockVars, countCache, unitVars, db, inserts,
                           entryInfo, hitInfo>>
            /\ UNCHANGED <<clientVars, moreVars>>

\* query strings: pages and page sizes that are missing, valid, zero,
\* negative, above the bound, fractional, empty or not a number; sorts that
\* are missing, allowlisted or unknown
RawPages ==
    {NoParam, Param(<<"1">>), Param(<<"2">>), Param(<<"0">>), Param(<<"-", "1">>),
     Param(<<"1", ".", "5">>), Param(<<"x">>), Param(<<>>)}
RawPageSizes ==
    {NoParam, Param(<<"1">>), Param(<<"2">>), Param(<<"0">>), Param(<<"-", "3">>),
     Param(<<"1", "0", "0", "0", "0", "0", "1">>), Param(<<"x">>)}
RawSorts ==
    {NoParam, Param(SortNameAsc), Param(<<"n", "o", "p", "e", ":", "a", "s", "c">>)}
RawQueries ==
    {RawQuery(p, ps, NoParam, NoParam, so) :
        p \in RawPages, ps \in RawPageSizes, so \in RawSorts}
CursorSizeProbes ==
    {CursorQuery(ps, NoParam, NoParam, NoParam, NoParam) :
        ps \in {NoParam, Param(<<"2">>), Param(<<"0">>), Param(<<"-", "5">>),
                Param(<<"1", "0", "0", "0", "1">>), Param(<<"x">>)}}

\* both endpoints under query strings as they arrive
RequestNext ==
    \/ \E raw \in RawQueries, countTime \in CountDurations :
          HandleGetUsers(raw, countTime)
    \/ \E rq \in CursorSizeProbes : GetUsersCursor(rq)

RequestSpec == Init /\ [][RequestNext]_vars

(***************************************************************************)
(* GET /api/users: the count path, statement by statement                  *)
(***************************************************************************)
\* a request that has run its row query and is about to look up the cache
Started(q) ==
    [request |-> q, key |-> CountCacheKey(q), pc |-> "get", counted |-> 0,
     totalCount |-> 0, countFromCache |-> FALSE, setNo |-> 0]

\* setCountCache calls made so far
SetsDone == Cardinality({p \in DOMAIN procs : procs[p].setNo > 0})

\* a request arrives and gets as far as line 115
ProcStart(q) ==
    /\ Len(procs) < MaxRequests
    /\ procs' = Append(procs, Started(q))
    /\ UNCHANGED <<clientVars, clockVars, countCache, unitVars, handlerVars,
                   pureVars, cursorVars>>

\* const cached = getCountCache(countCacheKey); a hit answers the request
ProcGet(p) ==
    /\ procs[p].pc = "get"
    /\ \E got \in {getCountCache(countCache, procs[p].key, now)} :
          /\ countCache' = got.cache
          /\ procs' = [procs EXCEPT ![p] =
                         IF got.result.isNull
                         THEN [@ EXCEPT !.pc = "count"]
                         ELSE [@ EXCEPT !.pc = "done",
                                        !.totalCount = got.result.value,
                                        !.countFromCache = TRUE]]
    /\ UNCHANGED <<clientVars, clockVars, unitVars, handlerVars, pureVars, cursorVars>>

\* totalCount = countStmt.get(params).totalCount
ProcCount(p) ==
    /\ procs[p].pc = "count"
    /\ procs' = [procs EXCEPT ![p] =
                    [@ EXCEPT !.pc = "set",
                              !.counted = CountRows(db, procs[p].request)]]
    /\ UNCHANGED <<clientVars, clockVars, countCache, unitVars, handlerVars,
                   pureVars, cursorVars>>

\* setCountCache(countCacheKey, totalCount), then the answer
ProcSet(p) ==
    /\ procs[p].pc = "set"
    /\ countCache' = setCountCache(countCache, procs[p].key, procs[p].counted, now)
    /\ written' = MapSet(written, procs[p].key,
                         [value |-> procs[p].counted, at |-> now])
    /\ procs' = [procs EXCEPT ![p] =
                    [@ EXCEPT !.pc = "done",
                              !.totalCount = procs[p].counted,
                              !.setNo = SetsDone + 1]]
    /\ UNCHANGED <<clientVars, clockVars, cacheOps, reads, lastGet, handlerVars,
                   pureVars, cursorVars>>

\* the next statement of request p
ProcStep(p) == ProcGet(p) \/ ProcCount(p) \/ ProcSet(p)

\* requests of one filter, with another page and sort, and of another filter
MissQueries ==
    {ParsedQuery(1, 2, <<>>, null, SortCreatedAtDesc),
     ParsedQuery(2, 1, <<" ">>, null, SortNameAsc),
     ParsedQuery(1, 2, <<>>, "ACTIVE", SortCreatedAtDesc)}

\* requests whose statements interleave in any way, the clock and the table
\* moving in between
MissNext ==
    \/ \E q \in MissQueries : ProcStart(q)
    \/ \E p \in DOMAIN procs : ProcStep(p)
    \/ \E d \in ServerTickSteps : Tick(d)
    \/ InsertUser

MissSpec == Init /\ [][MissNext]_vars

(***************************************************************************)
(* GET /api/users: a query that throws                                     *)
(***************************************************************************)
\* what the caller gets when a statement of the handler throws: the handler
\* has no try / catch, so res.json is not reached and the error goes to the
\* framework; rowQueries and countQueries are the calls made before
ServerError(failed, rowCalls, countCalls) ==
    [status |-> 500, failedQuery |-> failed,
     rowQueries |-> rowCalls, countQueries |-> countCalls]

\* rowsStmt.all(...) throws: nothing after line 94 runs
RowQueryFails(q) ==
    /\ served < MaxRequests
    /\ res' = ServerError("rows", 1, 0)
    /\ hitInfo' = nullObject
    /\ served' = served + 1
    /\ UNCHANGED <<clockVars, countCache, unitVars, db, inserts, entryInfo>>
    /\ UNCHANGED <<clientVars, moreVars>>

\* a failed COUNT that stores a zero
CountQueryFails_CachesZero(q) ==
    /\ served < MaxRequests
    /\ \E key \in {CountCacheKey(q)} :
         \E got \in {getCountCache(countCache, key, now)} :
            /\ got.result.isNull
            /\ countCache' = setCountCache(got.cache, key, 0, now)
    /\ res' = ServerError("count", 1, 1)
    /\ hitInfo' = nullObject
    /\ served' = served + 1
    /\ UNCHANGED <<clockVars, unitVars, db, inserts, entryInfo>>
    /\ UNCHANGED <<clientVars, moreVars>>

\* countStmt.get(params) throws: the row query and the cache lookup, a miss,
\* have run; setCountCache and res.json have not
CountQueryFails(q) ==
    /\ served < MaxRequests
    /\ \E key \in {CountCacheKey(q)} :
         \E got \in {getCountCache(countCache, key, now)} :
            /\ got.result.isNull
            /\ countCache' = got.cache
    /\ res' = ServerError("count", 1, 1)
    /\ hitInfo' = nullObject
    /\ served' = served + 1
    /\ UNCHANGED <<clockVars, unitVars, db, inserts, entryInfo>>
    /\ UNCHANGED <<clientVars, moreVars>>

\* the handler with queries that may throw
FaultNext ==
    \/ \E q \in Queries, countTime \in CountDurations : GetUsers(q, countTime)
    \/ \E q \in Queries : RowQueryFails(q)
    \/ \E q \in Queries : CountQueryFails(q)
    \/ \E d \in ServerTickSteps : Tick(d)

FaultSpec == Init /\ [][FaultNext]_vars

(***************************************************************************)
(* GET /api/users-cursor: properties                                       *)
(***************************************************************************)
\* the rows of a sequence
RowsOf(seq) == {seq[i] : i \in DOMAIN seq}

\* the rows the filter of the walk's first request selects
WalkMatching == {r \in db : MatchesCursorWhere(r, walk.first)}

\* r comes strictly before o under (createdAt DESC, id DESC)
ComesBefore(r, o) ==
    r.createdAt > o.createdAt \/ (r.createdAt = o.createdAt /\ r.id > o.id)

\* C14: the pages of a walk, put end to end, are at every moment the first
\* matching rows in (createdAt DESC, id DESC) order, each once and none
\* skipped; the walk comes to an answer with nextCursor = null, and by then
\* every matching row has been returned.
C14_WalkCompletes ==
    /\ [](walk # nullObject =>
            /\ RowsOf(walk.pages) \subseteq WalkMatching
            /\ \A i \in 1 .. Len(walk.pages) - 1 :
                  ComesBefore(walk.pages[i], walk.pages[i + 1])
            /\ \A r \in WalkMatching :
                  (\E i \in DOMAIN walk.pages : ComesBefore(r, walk.pages[i])) =>
                     r \in RowsOf(walk.pages))
    /\ <>[](/\ walk # nullObject
            /\ walk.next.isNull
            /\ RowsOf(walk.pages) = WalkMatching)

C14_Witness ==
    /\ walk # nullObject
    /\ walk.next.isNull
    /\ walk.calls = 5
    /\ Len(walk.pages) = 4
    /\ \E i \in 1 .. 3 : walk.pages[i].createdAt = walk.pages[i + 1].createdAt

\* a text made of digits only
IsIntegerText(t) == t # <<>> /\ \A i \in DOMAIN t : IsDigit(t[i])

\* the request carries one cursor field without the other, or a cursorId
\* that is not an integer
IsPartialCursor(rq) ==
    \/ (rq.cursorCreatedAt.given /\ ~rq.cursorId.given)
    \/ (~rq.cursorCreatedAt.given /\ rq.cursorId.given)
    \/ (rq.cursorId.given /\ ~IsIntegerText(rq.cursorId.text))

\* this step handles a cursor request
CursorHandledStep == cursorRes' # cursorRes

\* the result is that of the same request without its cursor fields, on table
IsAnsweredAsBare(result, table) ==
    LET bare == CursorAnswer(table, [result.request EXCEPT
                                       !.cursorCreatedAt = NoParam,
                                       !.cursorId = NoParam])
    IN  /\ ~result.thrown
        /\ result.answer.rows = bare.rows
        /\ result.answer.nextCursor = bare.nextCursor
        /\ result.answer.meta.usedCursor = nullObject

\* C15: a request with a partial cursor is answered as the same request with
\* no cursor: the same rows, the same nextCursor, and usedCursor = null.
C15_PartialCursorIgnored ==
    [][(CursorHandledStep /\ IsPartialCursor(cursorRes'.request)) =>
          IsAnsweredAsBare(cursorRes', db)]_vars

\* the result holds, in order, the first pageSize rows of the filter that
\* lie under the cursor and no other row, and the nextCursor of its last row
IsKeysetPage(result, table) ==
    LET rq == result.request
        pageRows == result.answer.rows
        next == result.answer.nextCursor
        complete == /\ rq.cursorCreatedAt.given
                    /\ rq.cursorId.given
                    /\ IsIntegerText(rq.cursorId.text)
        under(r) == \/ r.createdAt < rq.cursorCreatedAt.at
                    \/ (r.createdAt = rq.cursorCreatedAt.at
                        /\ r.id < DigitsPrefix(rq.cursorId.text, 0))
        eligible == {r \in table : /\ MatchesCursorWhere(r, [rq EXCEPT
                                                               !.cursorCreatedAt = NoParam,
                                                               !.cursorId = NoParam])
                                   /\ under(r)}
    IN  /\ complete =>
             /\ RowsOf(pageRows) \subseteq eligible
             /\ \A i \in 1 .. Len(pageRows) - 1 : ComesBefore(pageRows[i], pageRows[i + 1])
             /\ \A r \in eligible \ RowsOf(pageRows) :
                   /\ Len(pageRows) = result.answer.meta.pageSize
                   /\ ComesBefore(pageRows[Len(pageRows)], r)
        /\ next.isNull = (pageRows = <<>>)
        /\ ~next.isNull =>
             /\ next.cursorCreatedAt = pageRows[Len(pageRows)].createdAt
             /\ next.cursorId = pageRows[Len(pageRows)].id

\* C19: with a complete cursor (c, i) the page holds, in order, the first
\* pageSize rows of the filter that have createdAt < c, or createdAt = c and
\* id < i, and no other row; nextCursor is the (createdAt, id) of the last
\* row of the page and is null exactly when the page is empty.
C19_KeysetBound ==
    [][(CursorHandledStep /\ ~cursorRes'.thrown) => IsKeysetPage(cursorRes', db)]_vars

C19_Witness ==
    /\ cursorRes # nullObject
    /\ ~cursorRes.thrown
    /\ cursorRes.request.cursorCreatedAt = Stamp(0 - 2)
    /\ cursorRes.request.cursorId = Param(<<"3">>)
    /\ cursorRes.answer.meta.pageSize = 2
    /\ Len(cursorRes.answer.rows) = 2
    /\ cursorRes.answer.rows[1].createdAt = 0 - 2
    /\ cursorRes.answer.rows[1].id < 3
    /\ cursorRes.answer.rows[2].createdAt < 0 - 2
    /\ \E r \in db : r.createdAt = 0 - 2 /\ r.id > 3
    /\ ~cursorRes.answer.nextCursor.isNull

\* the sort of the answer is one of the allowlisted fields with a direction
IsAllowlistedSort(text) ==
    \E f \in {FieldId, FieldName, FieldEmail, FieldStatus, FieldCreatedAt},
       d \in {TextAsc, TextDesc} : text = f \o <<":">> \o d

\* C16: no request is rejected for its page, pageSize or sort: the offset
\* handler answers with page >= 1, 1 <= pageSize <= bound and an allowlisted
\* sort, and the cursor handler answers with 1 <= pageSize <= bound.
C16_InvalidInputCoerced ==
    [][/\ HandledStep =>
            /\ res' # BadRequest
            /\ res'.meta.page >= 1
            /\ res'.meta.pageSize \in 1 .. SchemaMaxPageSize
            /\ IsAllowlistedSort(res'.meta.sort)
       /\ CursorHandledStep =>
            /\ ~cursorRes'.thrown
            /\ cursorRes'.answer.meta.pageSize \in 1 .. CursorMaxPageSize]_vars

\* what does hold: a page or pageSize that is not an integer in the range
\* is refused with 400, every other request is answered, an unknown sort
\* included; the cursor handler clamps every numeric pageSize
C16_RejectsOutOfRange ==
    [][/\ HandledStep =>
            \/ res' = BadRequest
            \/ /\ res'.meta.page >= 1
               /\ res'.meta.pageSize \in 1 .. SchemaMaxPageSize
               /\ IsAllowlistedSort(res'.meta.sort)
       /\ CursorHandledStep =>
            \/ cursorRes'.thrown /\ CursorPageSize(cursorRes'.request).nan
            \/ /\ ~cursorRes'.thrown
               /\ cursorRes'.answer.meta.pageSize \in 1 .. CursorMaxPageSize]_vars

\* the parsed query an answer of GET /api/users echoes
RequestOf(answer) ==
    ParsedQuery(answer.request.page, answer.request.pageSize, answer.request.search,
                answer.request.status, answer.request.sort)

\* q selects the rows of the table that the request of the cache entry selects
SelectsAs(entry, q, table) ==
    \A r \in table : MatchesWhere(r, q) = MatchesWhere(r, entry.request)

\* C17: with countFromCache = false the totalCount returned is the COUNT of
\* the request's filter run by this request; otherwise it is the result of a
\* COUNT of that filter (of a request that selects the same rows) which ended
\* no more than the TTL before the answer.
C17_BoundedStaleness ==
    [][HandledStep =>
          IF res'.meta.countFromCache
          THEN /\ hitInfo' # nullObject
               /\ SelectsAs(hitInfo', RequestOf(res'), db')
               /\ res'.totalCount = hitInfo'.counted
               /\ hitInfo'.countedAt <= hitInfo'.writtenAt
               /\ hitInfo'.writtenAt <= now'
               /\ now' <= hitInfo'.writtenAt + COUNT_CACHE_TTL_MS
          ELSE /\ res'.totalCount = CountRows(db', RequestOf(res'))
               /\ \E key \in DOMAIN entryInfo' :
                     /\ entryInfo'[key].request = RequestOf(res')
                     /\ entryInfo'[key].counted = res'.totalCount
                     /\ entryInfo'[key].writtenAt = now']_vars

\* a cached total, a whole TTL old, that is no longer the COUNT of the table
C17_Witness ==
    /\ res # nullObject
    /\ res.meta.countFromCache
    /\ hitInfo # nullObject
    /\ now = hitInfo.writtenAt + COUNT_CACHE_TTL_MS
    /\ res.totalCount = hitInfo.counted
    /\ res.totalCount # CountRows(db, RequestOf(res))

\* every request has been answered
AllDone == \A p \in DOMAIN procs : procs[p].pc = "done"

\* request p calls setCountCache in this step
ProcSetStep(p) == procs[p].pc = "set" /\ procs'[p].pc = "done"

\* C18: requests of one filter that each miss, count and set, in any
\* interleaving: none is ever blocked; a set replaces the entry of its key and
\* leaves one entry for it, with the value and expiry of that set; once all
\* are answered every key set holds the value and expiresAt of its last set.
C18_LastWriteWins ==
    /\ [](\A p \in DOMAIN procs : procs[p].pc # "done" => ENABLED ProcStep(p))
    /\ [][\A p \in DOMAIN procs : ProcSetStep(p) =>
             /\ DOMAIN countCache' = DOMAIN countCache \cup {procs[p].key}
             /\ countCache'[procs[p].key] =
                   [value |-> procs[p].counted,
                    expiresAt |-> now + COUNT_CACHE_TTL_MS]
             /\ \A k \in DOMAIN countCache \ {procs[p].key} :
                   countCache'[k] = countCache[k]]_vars
    /\ [](AllDone =>
            \A key \in DOMAIN written :
               /\ key \in DOMAIN countCache
               /\ countCache[key] = [value |-> written[key].value,
                                     expiresAt |-> written[key].at + COUNT_CACHE_TTL_MS])

\* two requests of one filter both missed; the one that counted first, before
\* an insert, set last: the entry holds its count
C18_Witness ==
    /\ Len(procs) = 2
    /\ AllDone
    /\ procs[1].key = procs[2].key
    /\ ~procs[1].countFromCache
    /\ ~procs[2].countFromCache
    /\ procs[1].counted < procs[2].counted
    /\ procs[2].setNo < procs[1].setNo
    /\ countCache[procs[1].key].value = procs[1].counted

\* the answer is that of a query that threw
IsFailure(answer) ==
    answer \in {ServerError("rows", 1, 0), ServerError("count", 1, 1)}

\* a request that fails: each query run at most once, nothing of an answer sent
FailsHard(answer) ==
    /\ answer.status = 500
    /\ answer.rowQueries <= 1
    /\ answer.countQueries <= 1
    /\ DOMAIN answer \cap {"rows", "totalCount", "request", "meta"} = {}

\* C20 as stated: a request whose row query or COUNT fails fails hard, and
\* the count cache is after it exactly as it was before.
C20_CacheUntouched ==
    [][(HandledStep /\ IsFailure(res')) =>
          /\ FailsHard(res')
          /\ countCache' = countCache]_vars

\* C20: a request whose row query or COUNT fails fails hard; no entry of the
\* count cache is written or replaced, and the only change there can be is
\* that one entry, already expired, has been removed.
C20_NoEntryWritten ==
    [][(HandledStep /\ IsFailure(res')) =>
          /\ FailsHard(res')
          /\ DOMAIN countCache' \subseteq DOMAIN countCache
          /\ \A k \in DOMAIN countCache' : countCache'[k] = countCache[k]
          /\ Cardinality(DOMAIN countCache \ DOMAIN countCache') <= 1
          /\ \A k \in DOMAIN countCache \ DOMAIN countCache' :
                countCache[k].expiresAt < now
          /\ res'.failedQuery = "rows" => countCache' = countCache]_vars

\* a COUNT has failed after the lookup removed the expired entry of its key
C20_Witness ==
    /\ res # nullObject
    /\ IsFailure(res)
    /\ res.failedQuery = "count"
    /\ \E key \in DOMAIN entryInfo : key \notin DOMAIN countCache

\* C21: a parameter change issues no ticket, aborts no request and leaves
\* the displayed result alone; the answer of the highest ticket that comes in
\* while a newer change waits in its debounce is applied, its request not
\* aborted; the displayed result changes only by the answer of the highest
\* ticket, so it stays that of the older parameters until the newer request
\* is dispatched and answered.
C21_SupersededByDispatchOnly ==
    /\ [][CurrentQuery' # CurrentQuery =>
            /\ reqIdRef' = reqIdRef
            /\ aborted' = aborted
            /\ calls' = calls
            /\ uiResult' = uiResult]_vars
    /\ [][\A k \in DOMAIN calls :
            (AnswerProcessed(k) /\ k = reqIdRef /\ timers # {}) =>
               /\ calls'[k].outcome = "Applied"
               /\ ShowsNext(calls'[k].json)
               /\ ~aborted'[calls'[k].controller]
               /\ timers' = timers]_vars
    /\ [][uiResult' # uiResult =>
            /\ AnswerProcessed(reqIdRef)
            /\ ShowsNext(calls'[reqIdRef].json)]_vars

\* the answer of ticket 1 is displayed, its request not aborted, while the
\* input is already another and its request still waits to be dispatched
C21_Witness ==
    /\ reqIdRef = 1
    /\ calls[1].outcome = "Applied"
    /\ Shows(calls[1].json)
    /\ ~aborted[calls[1].controller]
    /\ calls[1].q # CurrentQuery
    /\ \E t \in timers : t.q = CurrentQuery /\ t.remaining < DEBOUNCE_MS

\* rows, totalCount, request echo and meta as the grid displays them
displayed == <<rows, totalCount, apiResRequest, meta>>

\* useState([]), useState(0), useState(null), useState(null): nothing applied
DisplaysNothing ==
    /\ rows = EmptyRows
    /\ totalCount = 0
    /\ apiResRequest = nullObject
    /\ meta = nullObject

\* C22: rows, totalCount, request echo and meta are at every moment those of
\* one applied answer, or all four the initial values; they change only by
\* an answer being applied, all four together; a request that fails or is
\* aborted changes none of them.
C22_SingleResponse ==
    /\ [](\/ DisplaysNothing
          \/ \E k \in DOMAIN calls :
                /\ calls[k].outcome = "Applied"
                /\ Shows(calls[k].json))
    /\ [][\A k \in DOMAIN calls : FailureProcessed(k) => displayed' = displayed]_vars
    /\ [][displayed' # displayed =>
            \E k \in DOMAIN calls :
               /\ AnswerProcessed(k)
               /\ calls'[k].outcome = "Applied"
               /\ ShowsNext(calls'[k].json)]_vars

\* the latest request, sent for other parameters, has failed; the grid keeps
\* all of the answer of the ticket before it
C22_Witness ==
    /\ reqIdRef = 2
    /\ calls[1].outcome = "Applied"
    /\ calls[2].outcome = "Failed"
    /\ calls[2].q # calls[1].q
    /\ Shows(calls[1].json)
    /\ ~DisplaysNothing

====
